---- MODULE Spec2Model ----
(***************************************************************************)
(* Moderation pipeline of the Mind-Support backend: the Stream webhook     *)
(* handler (signature check, idempotency guard, keyword scan, severity     *)
(* dispatch, metrics) over the MongoDB collections it writes.              *)
(*                                                                         *)
(* One webhook request is one index of Requests.  Every await of the       *)
(* handler is one action, so requests interleave exactly at the awaits.    *)
(* Time is a clock of whole weeks, the retention period of the guard.      *)
(***************************************************************************)
EXTENDS Integers, Sequences, FiniteSets, TLC

(* ------------------------------ bounds --------------------------------- *)

\* number of webhook requests delivered in one behaviour
NumDeliveries == 2

\* number of storage / provider / notification calls that may fail
MaxFaults == 1

\* last week the clock reaches
MaxWeek == 1

\* concurrent moderator requests
NumModerations == 2

\* the requests to authenticate, login or refresh
NumSessions == 1

\* direct calls of the keyword scanner
NumScans == 2

\* keywords in a rule set handed to a classification
MaxRules == 3

\* minutes the clock of the scanner runs
MaxMinute == 6

(* ------------------------- program constants --------------------------- *)

\* processedMessageSchema TTL index: expireAfterSeconds
expireAfterSeconds == 604800

\* the clock counts minutes
MsPerMinute == 60 * 1000

SecondsPerMinute == MsPerMinute \div 1000

MinutesPerHour == SecondsPerMinute

MinutesPerDay == 24 * MinutesPerHour

MinutesPerWeek == 7 * MinutesPerDay

DaysPerWeek == MinutesPerWeek \div MinutesPerDay

\* KeywordScannerService.cacheTTL, milliseconds
cacheTTL == 5 * 60 * 1000

(* ------------------------------ text ----------------------------------- *)

LowerAlphabet == <<"a", "b", "c", "d", "e", "f", "g", "h", "i", "j", "k", "l", "m",
                   "n", "o", "p", "q", "r", "s", "t", "u", "v", "w", "x", "y", "z">>

UpperAlphabet == <<"A", "B", "C", "D", "E", "F", "G", "H", "I", "J", "K", "L", "M",
                   "N", "O", "P", "Q", "R", "S", "T", "U", "V", "W", "X", "Y", "Z">>

Digits == {"0", "1", "2", "3", "4", "5", "6", "7", "8", "9"}

Range(s) == {s[i] : i \in DOMAIN s}

\* String.prototype.toLowerCase on one character
toLowerCase(c) ==
    IF c \in Range(UpperAlphabet)
    THEN LowerAlphabet[CHOOSE i \in DOMAIN UpperAlphabet : UpperAlphabet[i] = c]
    ELSE c

\* String.prototype.toUpperCase on one character
toUpperCase(c) ==
    IF c \in Range(LowerAlphabet)
    THEN UpperAlphabet[CHOOSE i \in DOMAIN LowerAlphabet : LowerAlphabet[i] = c]
    ELSE c

\* regex class \w
IsWordChar(c) == c \in Range(LowerAlphabet) \cup Range(UpperAlphabet) \cup Digits \cup {"_"}

\* regex class \s
IsSpace(c) == c \in {" ", "\t", "\n"}

\* .replace(/[^\w\s]/g, ' ')
ReplacePunctuation(s) ==
    [i \in DOMAIN s |-> IF IsWordChar(s[i]) \/ IsSpace(s[i]) THEN s[i] ELSE " "]

\* .replace(/\s+/g, ' '): every run of whitespace becomes one space
CollapseSpaces(s) ==
    LET out[i \in 0..Len(s)] ==
            IF i = 0 THEN <<>>
            ELSE IF ~IsSpace(s[i]) THEN Append(out[i - 1], s[i])
            ELSE IF i > 1 /\ IsSpace(s[i - 1]) THEN out[i - 1]
            ELSE Append(out[i - 1], " ")
    IN  out[Len(s)]

\* .trim()
trim(s) ==
    LET inked == {i \in 1..Len(s) : ~IsSpace(s[i])}
    IN  IF inked = {} THEN <<>>
        ELSE SubSeq(s, CHOOSE i \in inked : \A j \in inked : i <= j,
                       CHOOSE i \in inked : \A j \in inked : i >= j)

normalizeText(text) ==
    trim(CollapseSpaces(ReplacePunctuation([i \in DOMAIN text |-> toLowerCase(text[i])])))

\* regex assertion \b before the character at index i (1-based; i = Len+1 is the end)
WordBoundary(s, i) ==
    LET wordBefore == i > 1 /\ IsWordChar(s[i - 1])
        wordAfter  == i <= Len(s) /\ IsWordChar(s[i])
    IN  wordBefore # wordAfter

\* one character of the pattern against one of the text: `.` takes any
\* character but a line break, another character itself in either case (flag i)
CharMatches(p, c) ==
    IF p = "." THEN c # "\n" ELSE toLowerCase(c) = toLowerCase(p)

\* the pattern occurs at index i
OccursAt(word, s, i) ==
    /\ i + Len(word) - 1 <= Len(s)
    /\ \A j \in DOMAIN word : CharMatches(word[j], s[i + j - 1])

\* new RegExp(`\\b${word}\\b`, 'i').exec(s): indices where the match may start
PlainMatches(word, s) ==
    {i \in 1..Len(s) : /\ OccursAt(word, s, i)
                       /\ WordBoundary(s, i)
                       /\ WordBoundary(s, i + Len(word))}

\* new RegExp(word, 'gi').exec(s) for a pattern of characters and `.`
RegexMatches(word, s) == {i \in 1..Len(s) : OccursAt(word, s, i)}

Min(S) == CHOOSE x \in S : \A y \in S : x <= y

(* --------------------------- keyword scanner --------------------------- *)

\* the characters of every string the model scans or matches
Spelling ==
    ("" :> <<>>) @@
    ("   " :> <<" ", " ", " ">>) @@
    ("suicide" :> <<"s", "u", "i", "c", "i", "d", "e">>) @@
    ("stress" :> <<"s", "t", "r", "e", "s", "s">>) @@
    ("s.icide" :> <<"s", ".", "i", "c", "i", "d", "e">>) @@
    ("suicid(" :> <<"s", "u", "i", "c", "i", "d", "(">>) @@
    ("depress" :> <<"d", "e", "p", "r", "e", "s", "s">>) @@
    ("I am depressed and stressed" :> <<"I", " ", "a", "m", " ", "d", "e", "p", "r", "e", "s", "s", "e", "d", " ", "a", "n", "d", " ", "s", "t", "r", "e", "s", "s", "e", "d">>) @@
    ("stressed depressed suicide" :> <<"s", "t", "r", "e", "s", "s", "e", "d", " ", "d", "e", "p", "r", "e", "s", "s", "e", "d", " ", "s", "u", "i", "c", "i", "d", "e">>) @@
    ("I want to kill myself" :> <<"I", " ", "w", "a", "n", "t", " ", "t", "o", " ", "k", "i", "l", "l", " ", "m", "y", "s", "e", "l", "f">>) @@
    ("kill and myself" :> <<"k", "i", "l", "l", " ", "a", "n", "d", " ", "m", "y", "s", "e", "l", "f">>) @@
    ("suicide stressed suicide" :> <<"s", "u", "i", "c", "i", "d", "e", " ", "s", "t", "r", "e", "s", "s", "e", "d", " ", "s", "u", "i", "c", "i", "d", "e">>) @@
    ("kill myself" :> <<"k", "i", "l", "l", " ", "m", "y", "s", "e", "l", "f">>) @@
    ("depressed" :> <<"d", "e", "p", "r", "e", "s", "s", "e", "d">>) @@
    ("stressed" :> <<"s", "t", "r", "e", "s", "s", "e", "d">>) @@
    ("hello" :> <<"h", "e", "l", "l", "o">>) @@
    ("I am thinking about suicide" :> <<"I", " ", "a", "m", " ", "t", "h", "i", "n", "k", "i", "n", "g", " ", "a", "b", "o", "u", "t", " ", "s", "u", "i", "c", "i", "d", "e">>) @@
    ("I feel really depressed today" :> <<"I", " ", "f", "e", "e", "l", " ", "r", "e", "a", "l", "l", "y", " ", "d", "e", "p", "r", "e", "s", "s", "e", "d", " ", "t", "o", "d", "a", "y">>) @@
    ("So STRESSED!!!" :> <<"S", "o", " ", "S", "T", "R", "E", "S", "S", "E", "D", "!", "!", "!">>) @@
    ("Hello, how are you?" :> <<"H", "e", "l", "l", "o", ",", " ", "h", "o", "w", " ", "a", "r", "e", " ", "y", "o", "u", "?">>)

NONE == "none"

LOW == "low"

MEDIUM == "medium"

HIGH == "high"

KeywordSeverity == {NONE, LOW, MEDIUM, HIGH}

\* the ModerationKeyword collection, in insertion order
KeywordsDb == <<
    [word |-> "suicide",     severity |-> HIGH,   action |-> "escalate", isRegex |-> FALSE, enabled |-> TRUE],
    [word |-> "kill myself", severity |-> HIGH,   action |-> "escalate", isRegex |-> FALSE, enabled |-> TRUE],
    [word |-> "depressed",   severity |-> MEDIUM, action |-> "flag",     isRegex |-> FALSE, enabled |-> TRUE],
    [word |-> "stressed",    severity |-> LOW,    action |-> "flag",     isRegex |-> FALSE, enabled |-> TRUE],
    [word |-> "hello",       severity |-> HIGH,   action |-> "hide",     isRegex |-> FALSE, enabled |-> FALSE] >>

\* ModerationKeyword.find({ enabled: true })
FindEnabled(db) ==
    LET out[i \in 0..Len(db)] ==
            IF i = 0 THEN <<>>
            ELSE IF db[i].enabled THEN Append(out[i - 1], db[i])
            ELSE out[i - 1]
    IN  out[Len(db)]

getSeverityScore(severity) ==
    CASE severity = NONE   -> 0
      [] severity = LOW    -> 1
      [] severity = MEDIUM -> 2
      [] severity = HIGH   -> 3
      [] OTHER             -> 0

\* new RegExp(...) throws on this keyword: an unbalanced group in the word
RegExpThrows(keyword) ==
    LET cs == Range(Spelling[keyword.word]) IN ("(" \in cs) # (")" \in cs)

\* start indices (1-based) of the keyword in the normalized text
KeywordHits(keyword, normalized) ==
    IF keyword.isRegex
    THEN RegexMatches(Spelling[keyword.word], normalized)
    ELSE PlainMatches(Spelling[keyword.word], normalized)

\* faulty variant: the try block is around the loop, and the first keyword that
\* throws ends it
CollectMatchesUntilError(keywords, normalized) ==
    LET thrown(i) == \E j \in 1..i : RegExpThrows(keywords[j])
        out[i \in 0..Len(keywords)] ==
            IF i = 0 THEN <<>>
            ELSE LET keyword == keywords[i]
                     hits    == KeywordHits(keyword, normalized)
                 IN  IF thrown(i) \/ hits = {}
                     THEN out[i - 1]
                     ELSE Append(out[i - 1],
                                 [word     |-> keyword.word,
                                  severity |-> keyword.severity,
                                  action   |-> keyword.action,
                                  position |-> Min(hits) - 1])
    IN  out[Len(keywords)]

\* the body of the for loop of scanText: the matches pushed, in keyword order
CollectMatches(keywords, normalized) ==
    LET out[i \in 0..Len(keywords)] ==
            IF i = 0 THEN <<>>
            ELSE LET keyword == keywords[i]
                     hits    == KeywordHits(keyword, normalized)
                 IN  IF RegExpThrows(keyword) \/ hits = {}
                     THEN out[i - 1]
                     ELSE Append(out[i - 1],
                                 [word     |-> keyword.word,
                                  severity |-> keyword.severity,
                                  action   |-> keyword.action,
                                  position |-> Min(hits) - 1])
    IN  out[Len(keywords)]

\* faulty variant: every match replaces the running maximum
HighestTakesLast(matches) ==
    IF matches = <<>> THEN [severity |-> NONE, severityScore |-> 0]
    ELSE [severity      |-> matches[Len(matches)].severity,
          severityScore |-> getSeverityScore(matches[Len(matches)].severity)]

\* highestSeverity / highestScore after the loop: a later match replaces the
\* running maximum only when its score is strictly greater
Highest(matches) ==
    LET top[i \in 0..Len(matches)] ==
            IF i = 0 THEN [severity |-> NONE, severityScore |-> 0]
            ELSE LET score == getSeverityScore(matches[i].severity)
                 IN  IF score > top[i - 1].severityScore
                     THEN [severity |-> matches[i].severity, severityScore |-> score]
                     ELSE top[i - 1]
    IN  top[Len(matches)]

\* m put into a list sorted by position, after the entries of the same position
InsertByPosition(m, sorted) ==
    LET k == Cardinality({i \in DOMAIN sorted : sorted[i].position <= m.position})
    IN  SubSeq(sorted, 1, k) \o <<m>> \o SubSeq(sorted, k + 1, Len(sorted))

\* faulty variant: the matches are returned in the order of the keywords
SortByPositionSkipped(matches) == matches

\* Array.prototype.sort((a, b) => a.position - b.position), a stable sort
SortByPosition(matches) ==
    LET out[i \in 0..Len(matches)] ==
            IF i = 0 THEN <<>> ELSE InsertByPosition(matches[i], out[i - 1])
    IN  out[Len(matches)]

EmptyScan == [severity |-> NONE, matches |-> <<>>, severityScore |-> 0]

\* faulty variant: no text takes the fast path
IsBlankNever(text) == FALSE

\* !text || text.trim().length === 0
IsBlank(text) == trim(Spelling[text]) = <<>>

\* scanText on the characters of a text once the keywords are loaded
scanChars(keywords, chars) ==
    LET matches == CollectMatches(keywords, normalizeText(chars))
        top     == Highest(matches)
    IN  [severity      |-> top.severity,
         matches       |-> SortByPosition(matches),
         severityScore |-> top.severityScore]

\* scanText once the keywords are loaded
scanWith(keywords, text) == scanChars(keywords, Spelling[text])

(* ------------------------------ inputs --------------------------------- *)

Requests == 1..NumDeliveries

Weeks == 0..MaxWeek

\* new Date().toISOString().split('T')[0] at time t, as a day number
Today(t) == t \div MinutesPerDay

Days == {Today(w * MinutesPerWeek) : w \in Weeks}

\* message.user is absent from the payload
NoUser == "-"

\* the messages the provider may deliver: id -> text, author, channel
Message ==
    ("msg-123"   :> [text |-> "I am thinking about suicide",   user |-> "user-123",
                     cid |-> "messaging:channel-123"]) @@
    ("msg-456"   :> [text |-> "I feel really depressed today", user |-> "user-456",
                     cid |-> "messaging:channel-456"]) @@
    ("msg-789"   :> [text |-> "So STRESSED!!!",                user |-> "user-789",
                     cid |-> "messaging:channel-123"]) @@
    ("msg-clean" :> [text |-> "Hello, how are you?",           user |-> "user-clean",
                     cid |-> "messaging:channel-clean"]) @@
    ("msg-anon"  :> [text |-> "Hello, how are you?",           user |-> NoUser,
                     cid |-> "messaging:channel-123"])

MessageIds == DOMAIN Message

NoMessage == "-"

\* x-signature header: absent, rejected or accepted by verifyWebhookSignature
Signatures == {"missing", "invalid", "valid"}

\* req.body: a message.new event of a message, or an event of another type
Events ==
    {[type |-> "message.new", message |-> m] : m \in MessageIds}
        \cup {[type |-> "channel.updated", message |-> NoMessage]}

NoEvent == [type |-> "-", message |-> NoMessage]

\* the ChatRoom documents that exist, by streamChannelId
RoomIds == {"messaging:channel-123", "messaging:channel-456"}

NoDate == -1

NoResponse == [status |-> 0, success |-> FALSE]

\* the User documents that exist: two authors and two moderators
UserIds == {"user-123", "user-456", "mod-1", "mod-2"}

\* moderator requests, numbered after the webhook requests
Moderations == {NumDeliveries + k : k \in 1..NumModerations}

\* req.user.id of a moderator request
moderatorId(k) == IF k = NumDeliveries + 1 THEN "mod-1" ELSE "mod-2"

\* enum ModerationAction
ModerationAction == {"dismiss", "remove", "banUser", "suspendChannel"}

\* req.body.banDurationHours: absent, or one week
NoDuration == 0

BanDurations == {NoDuration, DaysPerWeek * 24}

\* enum UserRole
UserRole == {"user", "moderator", "admin"}

\* JWT_SECRET and JWT_REFRESH_SECRET: each any string of 32 characters or
\* more, so the two may be the same string
Secrets == {"secret-a", "secret-b"}

JwtConfigs == [secret : Secrets, refreshSecret : Secrets]

\* the secrets of the test environment
TestJwt == [secret |-> "secret-a", refreshSecret |-> "secret-b"]

\* JWT_ACCESS_EXPIRY '15m' and JWT_REFRESH_EXPIRY '7d', in minutes
accessExpiry == 15

refreshExpiry == MinutesPerWeek

NoEmail == "-"

\* Omit<JWTPayload, 'type'>: userId, role and the optional email
Payloads == [userId : UserIds, role : UserRole, email : {NoEmail, "test@example.com"}]

NoClaims == [userId |-> "-", role |-> "-", email |-> NoEmail]

NoToken == [userId |-> "-", role |-> "-", email |-> NoEmail, type |-> "-", key |-> "-",
            iat |-> NoDate, exp |-> NoDate, iss |-> "-", aud |-> "-"]

NoVerdict == [by |-> "-", at |-> NoDate, error |-> "-", userId |-> "-", role |-> "-",
              type |-> "-"]

\* requests to authenticate, login and refresh
Sessions == 1..NumSessions

NoSession == [op |-> "-", at |-> "idle", userId |-> "-", password |-> FALSE,
              status |-> 0, code |-> "-"]

\* the id in the token, or the e-mail address, of an account that is no longer there
GoneUserId == "user-789"

\* an id that names no document
MissingId == 0

NoRequest == [op |-> "-", id |-> MissingId, action |-> "-", banDurationHours |-> NoDuration]

NoDocument == [_id |-> MissingId]

\* actionDetails before the switch: nothing attempted yet
NoDetails == [messageDeleted |-> "-", streamBanned |-> "-", channelSuspended |-> "-",
              bannedUntil |-> NoDate]

\* what a moderator request holds in memory: the report or queue item it read,
\* the ban expiry and flagged counter it computed, and actionDetails
NoLoaded == [doc |-> NoDocument, bannedUntil |-> NoDate, flaggedCount |-> 0,
             details |-> NoDetails]

NoReply == [status |-> 0, code |-> "-"]

\* no classification made yet
Unscanned == [severity |-> "-", matches |-> <<>>, severityScore |-> 0]

NoOutcome == [plain |-> Unscanned, upper |-> Unscanned, marked |-> Unscanned, mark |-> "-"]

\* direct calls of the scanner, numbered after the moderator requests
Scans == {NumDeliveries + NumModerations + c : c \in 1..NumScans}

\* the texts handed to scanText directly
Texts == {"", "   ", "I am thinking about suicide", "Hello, how are you?"}

NoText == "-"

\* a direct call of the scanner: the method called and its text, `now` of its
\* loadKeywords call, the return statement loadKeywords left by and what it
\* returned, the ScanResult, the calls that had returned when it began, and the
\* cache fields when it began and ended
NoScan == [pc |-> "idle", op |-> "-", text |-> NoText, loadNow |-> NoDate,
           loadedFrom |-> "-", keywords |-> <<>>, result |-> EmptyScan,
           earlier |-> {},
           cacheWas |-> <<>>, updateWas |-> NoDate, clearedWas |-> FALSE,
           cacheLeft |-> <<>>, updateLeft |-> NoDate]

(* ------------------------------- state --------------------------------- *)

VARIABLES
    now,                \* the clock, in minutes
    faults,             \* failures injected so far
    pc,                 \* per request: the await it is suspended at
    signature,          \* per request: its x-signature header
    event,              \* per request: its body
    loadNow,            \* per request: `now` of its loadKeywords call
    scanResult,         \* per request: the ScanResult of its message
    response,           \* per request: the response sent
    after,              \* per request: the requests already answered when it arrived
    calls,              \* every storage / provider / push call made, with its caller
    processedMessages,  \* ProcessedMessage collection
    moderationQueue,    \* ModerationQueue collection
    reports,            \* Report collection
    auditLog,           \* AuditLog collection
    chatRooms,          \* ChatRoom collection, by streamChannelId
    metricsDaily,       \* MetricsMessagesDaily collection: day -> count
    cache,              \* KeywordScannerService.cache
    lastCacheUpdate,    \* KeywordScannerService.lastCacheUpdate
    swept,              \* the message ids whose ProcessedMessage document has expired
    users,              \* User collection, by id
    keywordStore,       \* ModerationKeyword collection, in insertion order
    step,               \* per moderator request: the await it is suspended at
    request,            \* per moderator request: its route, params and body
    loaded,             \* per moderator request: the document it holds in memory
    reply,              \* per moderator request: the response sent
    before,             \* per moderator request: the ones already answered when it arrived
    cleared,            \* clearCache has emptied the cache and no load has filled it since
    scans,              \* per direct call of the scanner: its position, locals and result
    ruleSet,            \* the keywords a classification is given
    sample,             \* the text a classification is given
    outcome,            \* the ScanResult of the text, of its upper case, and of it with a mark appended
    jwtConfig,          \* config.jwt: the two secrets
    claims,             \* the payload a token is generated from
    issued,             \* the token AuthService generated
    verified,           \* what AuthService made of the token
    sessions            \* per authentication request: its position, credentials and answer

requestVars == <<pc, signature, event, loadNow, scanResult, response, after>>

storeVars == <<processedMessages, moderationQueue, reports, auditLog, chatRooms, metricsDaily, swept,
               users, keywordStore>>

scannerVars == <<cache, lastCacheUpdate, cleared>>

moderationVars == <<step, request, loaded, reply, before>>

\* what the webhook handler never touches
classifyVars == <<ruleSet, sample, outcome>>

tokenVars == <<jwtConfig, claims, issued, verified>>

authVars == <<tokenVars, sessions>>

deskVars == <<moderationVars, scans, classifyVars, authVars>>

vars == <<now, faults, requestVars, calls, storeVars, scannerVars, deskVars>>

\* no token has been asked for: the configuration is the test environment's
Unissued ==
    /\ jwtConfig = TestJwt
    /\ claims = NoClaims

\* the state after construction, but for the inputs of a classification
Booted ==
    /\ now = 0
    /\ faults = 0
    /\ pc = [p \in Requests |-> "idle"]
    /\ signature = [p \in Requests |-> "missing"]
    /\ event = [p \in Requests |-> NoEvent]
    /\ loadNow = [p \in Requests |-> NoDate]
    /\ scanResult = [p \in Requests |-> EmptyScan]
    /\ response = [p \in Requests |-> NoResponse]
    /\ after = [p \in Requests |-> {}]
    /\ calls = {}
    /\ processedMessages = {}
    /\ moderationQueue = {}
    /\ reports = {}
    /\ auditLog = {}
    /\ chatRooms = [r \in RoomIds |-> [flaggedCount |-> 0, lastMessageAt |-> NoDate]]
    /\ metricsDaily = [d \in Days |-> 0]
    /\ cache = <<>>
    /\ lastCacheUpdate = NoDate
    /\ swept = {}
    /\ users = [u \in UserIds |-> [bannedUntil |-> NoDate]]
    /\ keywordStore = KeywordsDb
    /\ step = [k \in Moderations |-> "idle"]
    /\ request = [k \in Moderations |-> NoRequest]
    /\ loaded = [k \in Moderations |-> NoLoaded]
    /\ reply = [k \in Moderations |-> NoReply]
    /\ before = [k \in Moderations |-> {}]
    /\ cleared = FALSE
    /\ scans = [c \in Scans |-> NoScan]
    /\ outcome = NoOutcome
    /\ issued = NoToken
    /\ verified = NoVerdict
    /\ sessions = [a \in Sessions |-> NoSession]

Init ==
    /\ Booted
    /\ Unissued
    /\ ruleSet = <<>>
    /\ sample = ""

(* ------------------------------ helpers -------------------------------- *)

\* an awaited call resolves (TRUE) or rejects (FALSE)
Outcomes == IF faults < MaxFaults THEN {TRUE, FALSE} ELSE {TRUE}

Count(ok) == faults' = IF ok THEN faults ELSE faults + 1

\* the call log entry of one call of request p
\* (error is "none", "failed" or "E11000")
Call(p, op, id, opt, error) ==
    [origin |-> p, op |-> op, id |-> id, opt |-> opt, error |-> error]

Record(p, op, id, opt, error) == calls' = calls \cup {Call(p, op, id, opt, error)}

Error(ok) == IF ok THEN "none" ELSE "failed"

messageId(p) == event[p].message

text(p) == Message[messageId(p)].text

userId(p) == Message[messageId(p)].user

channelId(p) == Message[messageId(p)].cid

Goto(p, label) == pc' = [pc EXCEPT ![p] = label]

\* res.status(status).json({ success }): the request ends
Respond(p, status, success) ==
    /\ pc' = [pc EXCEPT ![p] = "done"]
    /\ response' = [response EXCEPT ![p] = [status |-> status, success |-> success]]

\* faulty variant: the error leaves the handler and the framework answers 500
CatchRethrows(p) == Respond(p, 500, FALSE)

\* catch of handleStreamWebhook for an error thrown by processMessageCreated
Catch(p) == Respond(p, 200, FALSE)

\* processMessageCreated returned: res.status(200).json({ success: true })
Return(p) == Respond(p, 200, TRUE)

\* faulty variant: the error of a best-effort call reaches the catch of the handler
SwallowRethrows(p, ok, next) ==
    IF ok THEN Goto(p, next) /\ UNCHANGED response ELSE Catch(p)

\* try { await call } catch (error) { logger.error(...) }: whatever the outcome,
\* the handler goes on to its next await
Swallow(p, ok, next) == Goto(p, next) /\ UNCHANGED response

(* --------------------------- webhook handler --------------------------- *)

\* faulty variant: verification accepts every signature that is present
verifyWebhookSignatureAcceptsAll(sig) == TRUE

\* streamClient.verifyWebhookSignature, after the check that the header is present
verifyWebhookSignature(sig) == sig = "valid"

\* handleStreamWebhook up to its first await.  Requests are numbered in the
\* order they arrive.
handleStreamWebhook(p) ==
    /\ pc[p] = "idle"
    /\ \A q \in Requests : q < p => pc[q] # "idle"
    /\ \E sig \in Signatures, ev \in Events :
        /\ signature' = [signature EXCEPT ![p] = sig]
        /\ event' = [event EXCEPT ![p] = ev]
        /\ after' = [after EXCEPT ![p] = {q \in Requests : pc[q] = "done"}]
        /\ IF sig = "missing" \/ ~verifyWebhookSignature(sig)
           THEN Respond(p, 401, FALSE)
           ELSE IF ev.type = "message.new" /\ ev.message # NoMessage
                THEN IF Message[ev.message].user = NoUser
                     THEN Catch(p)      \* message.user.id throws a TypeError
                     ELSE Goto(p, "isProcessed") /\ UNCHANGED response
                ELSE Return(p)
    /\ UNCHANGED <<deskVars, now, faults, loadNow, scanResult, calls, storeVars, scannerVars>>

(* -------------------------- idempotency guard -------------------------- *)

\* ProcessedMessage.findOne({ messageId }) !== null
RecordExists(id) == \E r \in processedMessages : r.messageId = id

\* faulty variant: the lookup never finds the record
isProcessedResultNever(id, ok) == FALSE

\* faulty variant: a failed lookup answers true
isProcessedResultFailClosed(id, ok) == IF ok THEN RecordExists(id) ELSE TRUE

\* IdempotencyService.isProcessed: a failed lookup answers false
isProcessedResult(id, ok) == IF ok THEN RecordExists(id) ELSE FALSE

\* faulty variant: the collection has no unique index on messageId
UniqueIndexMissing(id) == FALSE

\* the unique index on messageId rejects a second document of the same id
UniqueIndexRejects(id) == \E r \in processedMessages : r.messageId = id

\* the outcome of ProcessedMessage.create
CreateError(id, ok) ==
    IF ~ok THEN "failed" ELSE IF UniqueIndexRejects(id) THEN "E11000" ELSE "none"

\* faulty variant: the handler goes on to the scan without markProcessed
AdmitUnmarked(p) == Goto(p, "scanText")

\* not already processed: await idempotencyService.markProcessed(messageId)
\* is the next statement, before scanText
Admit(p) == Goto(p, "markProcessed")

\* await idempotencyService.isProcessed(messageId) and the early return
isProcessed(p) ==
    /\ pc[p] = "isProcessed"
    /\ \E ok \in Outcomes :
        /\ Count(ok)
        /\ Record(p, "ProcessedMessage.findOne", messageId(p), "", Error(ok))
        /\ IF isProcessedResult(messageId(p), ok)
           THEN Return(p)
           ELSE Admit(p) /\ UNCHANGED response
    /\ UNCHANGED <<deskVars, now, signature, event, after, loadNow, scanResult, storeVars, scannerVars>>

\* await idempotencyService.markProcessed(messageId): every error is swallowed
markProcessed(p) ==
    /\ pc[p] = "markProcessed"
    /\ \E ok \in Outcomes :
        LET err == CreateError(messageId(p), ok) IN
        /\ Count(ok)
        /\ Record(p, "ProcessedMessage.create", messageId(p), "", err)
        /\ processedMessages' =
              IF err = "none"
              THEN processedMessages \cup {[messageId |-> messageId(p), processedAt |-> now]}
              ELSE processedMessages
        /\ Goto(p, "scanText")
    /\ UNCHANGED <<deskVars, users, keywordStore, now, signature, event, after, loadNow, scanResult, response,
                   moderationQueue, reports, auditLog, chatRooms, metricsDaily, swept, scannerVars>>

(* ------------------------------ scanning ------------------------------- *)

\* the keyword lists the cache can hold
KeywordLists == {<<>>, FindEnabled(KeywordsDb)}

\* scanWith, tabulated over the keyword lists and the messages
ScanTable ==
    {[keywords |-> keywords, message |-> m, result |-> scanWith(keywords, Message[m].text)] :
        keywords \in KeywordLists, m \in MessageIds}

\* keywordScanner.scanText on the text of message m with these keywords loaded
Scan(keywords, m) ==
    (CHOOSE e \in ScanTable : e.keywords = keywords /\ e.message = m).result

\* IsBlank, tabulated over the messages
BlankMessages == {m \in MessageIds : IsBlank(Message[m].text)}

\* the validity test of loadKeywords at time t
CacheValid(force, t) ==
    /\ ~force
    /\ Len(cache) > 0
    /\ lastCacheUpdate # NoDate
    /\ (t - lastCacheUpdate) * MsPerMinute < cacheTTL

\* faulty variant: a MEDIUM verdict takes the HIGH branch
DispatchMediumAsHigh(severity) ==
    CASE severity = HIGH   -> "highQueue"
      [] severity = MEDIUM -> "highQueue"
      [] severity = LOW    -> "lowQueue"
      [] OTHER             -> "updateChatRoom"

\* faulty variant: a LOW verdict takes the MEDIUM branch
DispatchLowAsMedium(severity) ==
    CASE severity = HIGH   -> "highQueue"
      [] severity = MEDIUM -> "mediumQueue"
      [] severity = LOW    -> "mediumQueue"
      [] OTHER             -> "updateChatRoom"

\* faulty variant: the final else branch queues the message as LOW
DispatchNoneAsLow(severity) ==
    CASE severity = HIGH   -> "highQueue"
      [] severity = MEDIUM -> "mediumQueue"
      [] OTHER             -> "lowQueue"

\* the first await of the severity handlers, or of updateMetricsAndChatRoom
Dispatch(severity) ==
    CASE severity = HIGH   -> "highQueue"
      [] severity = MEDIUM -> "mediumQueue"
      [] severity = LOW    -> "lowQueue"
      [] OTHER             -> "updateChatRoom"

Scanned(p, result) ==
    /\ scanResult' = [scanResult EXCEPT ![p] = result]
    /\ Goto(p, Dispatch(result.severity))

\* faulty variant: the keywords read are pushed onto the array the cache holds
ReplacedInPlace(cached, keywords) == cached \o keywords

\* this.cache = keywords: the field is given the array that was read
Replaced(cached, keywords) == keywords

\* faulty variant: a failed read leaves the caller without keywords
StaleCacheDropped(cached) == <<>>

\* catch (error) { return this.cache }
StaleCache(cached) == cached

\* keywordScanner.scanText up to the storage read of loadKeywords
scanText(p) ==
    /\ pc[p] = "scanText"
    /\ IF messageId(p) \in BlankMessages
       THEN Scanned(p, EmptyScan) /\ UNCHANGED loadNow
       ELSE IF CacheValid(FALSE, now)
            THEN Scanned(p, Scan(cache, messageId(p))) /\ UNCHANGED loadNow
            ELSE /\ loadNow' = [loadNow EXCEPT ![p] = now]
                 /\ Goto(p, "loadKeywords")
                 /\ UNCHANGED scanResult
    /\ UNCHANGED <<deskVars, now, faults, signature, event, after, response, calls, storeVars, scannerVars>>

\* await ModerationKeyword.find({ enabled: true }) in loadKeywords, then the scan
loadKeywords(p) ==
    /\ pc[p] = "loadKeywords"
    /\ \E ok \in Outcomes :
        LET keywords == IF ok THEN FindEnabled(keywordStore) ELSE StaleCache(cache) IN
        /\ Count(ok)
        /\ Record(p, "ModerationKeyword.find", "", "", Error(ok))
        /\ cache' = IF ok THEN Replaced(cache, keywords) ELSE cache
        /\ lastCacheUpdate' = IF ok THEN loadNow[p] ELSE lastCacheUpdate
        /\ cleared' = (cleared /\ ~ok)
        /\ Scanned(p, Scan(keywords, messageId(p)))
    /\ loadNow' = [loadNow EXCEPT ![p] = NoDate]
    /\ UNCHANGED <<deskVars, now, signature, event, after, response, storeVars>>

(* ------------------------- severity dispatch --------------------------- *)

\* scanResult.matches.map(m => m.word)
Words(matches) == [i \in DOMAIN matches |-> matches[i].word]

\* the document of ModerationQueue.create in the severity handlers
QueueEntry(p, severity) ==
    [_id         |-> p,
     payload     |-> [messageId |-> messageId(p), userId |-> userId(p),
                      channelId |-> channelId(p), text |-> text(p),
                      matches |-> scanResult[p].matches],
     reasonTags  |-> Words(scanResult[p].matches),
     severity    |-> severity,
     processed   |-> FALSE,
     processedAt |-> NoDate]

\* faulty variant: the report is created without a status and takes the schema default
AutomaticReportDefaultStatus(p) ==
    [_id        |-> p,
     targetType |-> "message",
     targetId   |-> messageId(p),
     reason     |-> <<"Automatic: High severity keywords detected">> \o Words(scanResult[p].matches),
     status     |-> "open",
     resolvedAt |-> NoDate,
     moderatorId |-> NoUser,
     moderatorComment |-> ""]

\* the document of Report.create in handleHighSeverity
AutomaticReport(p) ==
    [_id        |-> p,
     targetType |-> "message",
     targetId   |-> messageId(p),
     reason     |-> <<"Automatic: High severity keywords detected">> \o Words(scanResult[p].matches),
     status     |-> "under_review",
     resolvedAt |-> NoDate,
     moderatorId |-> NoUser,
     moderatorComment |-> ""]

\* the document of AuditLog.create in the severity handlers
AuditEntry(p, action, severity) ==
    [_id    |-> p,
     action |-> action,
     target |-> messageId(p),
     meta   |-> [userId |-> userId(p), channelId |-> channelId(p),
                 severity |-> severity, matches |-> scanResult[p].matches,
                 automated |-> TRUE]]

\* ChatRoom.updateOne({ streamChannelId }, { $inc: { flaggedCount: n } })
IncFlaggedCount(rooms, cid, n) ==
    IF cid \in DOMAIN rooms
    THEN [rooms EXCEPT ![cid].flaggedCount = @ + n]
    ELSE rooms

\* ChatRoom.updateOne({ streamChannelId }, { lastMessageAt })
SetLastMessageAt(rooms, cid, t) ==
    IF cid \in DOMAIN rooms
    THEN [rooms EXCEPT ![cid].lastMessageAt = t]
    ELSE rooms

\* MetricsMessagesDaily.updateOne({ day }, { $inc: { count: 1 } }, { upsert: true })
IncDailyCount(metrics, day) == [metrics EXCEPT ![day] = @ + 1]

\* handleHighSeverity: await ModerationQueue.create
highQueueCreate(p) ==
    /\ pc[p] = "highQueue"
    /\ \E ok \in Outcomes :
        /\ Count(ok)
        /\ Record(p, "ModerationQueue.create", messageId(p), "3", Error(ok))
        /\ IF ok
           THEN /\ moderationQueue' = moderationQueue \cup {QueueEntry(p, 3)}
                /\ Goto(p, "highReport") /\ UNCHANGED response
           ELSE /\ UNCHANGED moderationQueue
                /\ Catch(p)
    /\ UNCHANGED <<deskVars, users, keywordStore, now, signature, event, after, loadNow, scanResult, processedMessages, reports, auditLog, chatRooms, metricsDaily, swept, scannerVars>>

\* handleHighSeverity: await Report.create
highReportCreate(p) ==
    /\ pc[p] = "highReport"
    /\ \E ok \in Outcomes :
        /\ Count(ok)
        /\ Record(p, "Report.create", messageId(p), "under_review", Error(ok))
        /\ IF ok
           THEN /\ reports' = reports \cup {AutomaticReport(p)}
                /\ Goto(p, "highDelete") /\ UNCHANGED response
           ELSE /\ UNCHANGED reports
                /\ Catch(p)
    /\ UNCHANGED <<deskVars, users, keywordStore, now, signature, event, after, loadNow, scanResult, processedMessages, moderationQueue, auditLog, chatRooms, metricsDaily, swept, scannerVars>>

\* handleHighSeverity: await streamClient.deleteMessage(messageId, true), errors caught
highDeleteMessage(p) ==
    /\ pc[p] = "highDelete"
    /\ \E ok \in Outcomes :
        /\ Count(ok)
        /\ Record(p, "streamClient.deleteMessage", messageId(p), "hard", Error(ok))
        /\ Swallow(p, ok, "highNotify")
    /\ UNCHANGED <<deskVars, now, signature, event, after, loadNow, scanResult, storeVars, scannerVars>>

\* handleHighSeverity: await pushService.notifyModerators, errors caught
highNotifyModerators(p) ==
    /\ pc[p] = "highNotify"
    /\ \E ok \in Outcomes :
        /\ Count(ok)
        /\ Record(p, "pushService.notifyModerators", messageId(p), "high", Error(ok))
        /\ Swallow(p, ok, "highCrisis")
    /\ UNCHANGED <<deskVars, now, signature, event, after, loadNow, scanResult, storeVars, scannerVars>>

\* handleHighSeverity: await pushService.sendCrisisResources, errors caught
highSendCrisisResources(p) ==
    /\ pc[p] = "highCrisis"
    /\ \E ok \in Outcomes :
        /\ Count(ok)
        /\ Record(p, "pushService.sendCrisisResources", userId(p), "", Error(ok))
        /\ Swallow(p, ok, "highRoom")
    /\ UNCHANGED <<deskVars, now, signature, event, after, loadNow, scanResult, storeVars, scannerVars>>

\* handleHighSeverity: await ChatRoom.updateOne $inc flaggedCount
highFlaggedCount(p) ==
    /\ pc[p] = "highRoom"
    /\ \E ok \in Outcomes :
        /\ Count(ok)
        /\ Record(p, "ChatRoom.updateOne", channelId(p), "flaggedCount", Error(ok))
        /\ IF ok
           THEN /\ chatRooms' = IncFlaggedCount(chatRooms, channelId(p), 1)
                /\ Goto(p, "highAudit") /\ UNCHANGED response
           ELSE /\ UNCHANGED chatRooms
                /\ Catch(p)
    /\ UNCHANGED <<deskVars, users, keywordStore, now, signature, event, after, loadNow, scanResult, processedMessages, moderationQueue, reports, auditLog, metricsDaily, swept, scannerVars>>

\* handleHighSeverity: await AuditLog.create
highAuditLog(p) ==
    /\ pc[p] = "highAudit"
    /\ \E ok \in Outcomes :
        /\ Count(ok)
        /\ Record(p, "AuditLog.create", messageId(p), "message_moderated_high", Error(ok))
        /\ IF ok
           THEN /\ auditLog' = auditLog \cup {AuditEntry(p, "message_moderated_high", "high")}
                /\ Goto(p, "updateChatRoom") /\ UNCHANGED response
           ELSE /\ UNCHANGED auditLog
                /\ Catch(p)
    /\ UNCHANGED <<deskVars, users, keywordStore, now, signature, event, after, loadNow, scanResult, processedMessages, moderationQueue, reports, chatRooms, metricsDaily, swept, scannerVars>>

\* handleMediumSeverity: await ModerationQueue.create
mediumQueueCreate(p) ==
    /\ pc[p] = "mediumQueue"
    /\ \E ok \in Outcomes :
        /\ Count(ok)
        /\ Record(p, "ModerationQueue.create", messageId(p), "2", Error(ok))
        /\ IF ok
           THEN /\ moderationQueue' = moderationQueue \cup {QueueEntry(p, 2)}
                /\ Goto(p, "mediumFlag") /\ UNCHANGED response
           ELSE /\ UNCHANGED moderationQueue
                /\ Catch(p)
    /\ UNCHANGED <<deskVars, users, keywordStore, now, signature, event, after, loadNow, scanResult, processedMessages, reports, auditLog, chatRooms, metricsDaily, swept, scannerVars>>

\* handleMediumSeverity: await streamClient.flagMessage(messageId, 'system', ...), errors caught
mediumFlagMessage(p) ==
    /\ pc[p] = "mediumFlag"
    /\ \E ok \in Outcomes :
        /\ Count(ok)
        /\ Record(p, "streamClient.flagMessage", messageId(p), "system", Error(ok))
        /\ Swallow(p, ok, "mediumRoom")
    /\ UNCHANGED <<deskVars, now, signature, event, after, loadNow, scanResult, storeVars, scannerVars>>

\* handleMediumSeverity: await ChatRoom.updateOne $inc flaggedCount
mediumFlaggedCount(p) ==
    /\ pc[p] = "mediumRoom"
    /\ \E ok \in Outcomes :
        /\ Count(ok)
        /\ Record(p, "ChatRoom.updateOne", channelId(p), "flaggedCount", Error(ok))
        /\ IF ok
           THEN /\ chatRooms' = IncFlaggedCount(chatRooms, channelId(p), 1)
                /\ Goto(p, "mediumAudit") /\ UNCHANGED response
           ELSE /\ UNCHANGED chatRooms
                /\ Catch(p)
    /\ UNCHANGED <<deskVars, users, keywordStore, now, signature, event, after, loadNow, scanResult, processedMessages, moderationQueue, reports, auditLog, metricsDaily, swept, scannerVars>>

\* handleMediumSeverity: await AuditLog.create
mediumAuditLog(p) ==
    /\ pc[p] = "mediumAudit"
    /\ \E ok \in Outcomes :
        /\ Count(ok)
        /\ Record(p, "AuditLog.create", messageId(p), "message_flagged_medium", Error(ok))
        /\ IF ok
           THEN /\ auditLog' = auditLog \cup {AuditEntry(p, "message_flagged_medium", "medium")}
                /\ Goto(p, "updateChatRoom") /\ UNCHANGED response
           ELSE /\ UNCHANGED auditLog
                /\ Catch(p)
    /\ UNCHANGED <<deskVars, users, keywordStore, now, signature, event, after, loadNow, scanResult, processedMessages, moderationQueue, reports, chatRooms, metricsDaily, swept, scannerVars>>

\* handleLowSeverity: await ModerationQueue.create
lowQueueCreate(p) ==
    /\ pc[p] = "lowQueue"
    /\ \E ok \in Outcomes :
        /\ Count(ok)
        /\ Record(p, "ModerationQueue.create", messageId(p), "1", Error(ok))
        /\ IF ok
           THEN /\ moderationQueue' = moderationQueue \cup {QueueEntry(p, 1)}
                /\ Goto(p, "updateChatRoom") /\ UNCHANGED response
           ELSE /\ UNCHANGED moderationQueue
                /\ Catch(p)
    /\ UNCHANGED <<deskVars, users, keywordStore, now, signature, event, after, loadNow, scanResult, processedMessages, reports, auditLog, chatRooms, metricsDaily, swept, scannerVars>>

(* ------------------------------ metrics -------------------------------- *)

\* updateMetricsAndChatRoom: await ChatRoom.updateOne lastMessageAt
updateChatRoom(p) ==
    /\ pc[p] = "updateChatRoom"
    /\ \E ok \in Outcomes :
        /\ Count(ok)
        /\ Record(p, "ChatRoom.updateOne", channelId(p), "lastMessageAt", Error(ok))
        /\ IF ok
           THEN /\ chatRooms' = SetLastMessageAt(chatRooms, channelId(p), now)
                /\ Goto(p, "updateMetrics") /\ UNCHANGED response
           ELSE /\ UNCHANGED chatRooms
                /\ Catch(p)
    /\ UNCHANGED <<deskVars, users, keywordStore, now, signature, event, after, loadNow, scanResult, processedMessages, moderationQueue, reports, auditLog, metricsDaily, swept, scannerVars>>

\* updateMetricsAndChatRoom: await MetricsMessagesDaily.updateOne, then the 200 response
updateMetrics(p) ==
    /\ pc[p] = "updateMetrics"
    /\ \E ok \in Outcomes :
        /\ Count(ok)
        /\ Record(p, "MetricsMessagesDaily.updateOne", "", "count", Error(ok))
        /\ IF ok
           THEN /\ metricsDaily' = IncDailyCount(metricsDaily, Today(now))
                /\ Return(p)
           ELSE /\ UNCHANGED metricsDaily
                /\ Catch(p)
    /\ UNCHANGED <<deskVars, users, keywordStore, now, signature, event, after, loadNow, scanResult, processedMessages, moderationQueue, reports, auditLog, chatRooms, swept, scannerVars>>

(* ---------------------------- environment ------------------------------ *)

\* a week passes
Tick ==
    /\ now < MaxWeek * MinutesPerWeek
    /\ now' = now + MinutesPerWeek
    /\ UNCHANGED <<deskVars, faults, requestVars, calls, storeVars, scannerVars>>

\* the TTL index on processedAt: the document is past expireAfterSeconds
Expired(r) == r.processedAt * SecondsPerMinute + expireAfterSeconds <= now * SecondsPerMinute

\* a pass of the storage layer's TTL monitor over ProcessedMessage
ttlMonitor ==
    /\ \E r \in processedMessages : Expired(r)
    /\ processedMessages' = {r \in processedMessages : ~Expired(r)}
    /\ swept' = swept \cup {r.messageId : r \in {x \in processedMessages : Expired(x)}}
    /\ UNCHANGED <<deskVars, users, keywordStore, now, faults, requestVars, calls, moderationQueue, reports, auditLog,
                   chatRooms, metricsDaily, scannerVars>>

(* --------------------------- specification ----------------------------- *)

Step(p) ==
    \/ handleStreamWebhook(p)
    \/ isProcessed(p)
    \/ markProcessed(p)
    \/ scanText(p)
    \/ loadKeywords(p)
    \/ highQueueCreate(p)
    \/ highReportCreate(p)
    \/ highDeleteMessage(p)
    \/ highNotifyModerators(p)
    \/ highSendCrisisResources(p)
    \/ highFlaggedCount(p)
    \/ highAuditLog(p)
    \/ mediumQueueCreate(p)
    \/ mediumFlagMessage(p)
    \/ mediumFlaggedCount(p)
    \/ mediumAuditLog(p)
    \/ lowQueueCreate(p)
    \/ updateChatRoom(p)
    \/ updateMetrics(p)

Next ==
    \/ \E p \in Requests : Step(p)
    \/ Tick
    \/ ttlMonitor

Spec == Init /\ [][Next]_vars

(* ------------------------- reading the state --------------------------- *)

Done(p) == pc[p] = "done"

\* p is a signature-verified message.new event of message m
Delivers(p, m) ==
    /\ pc[p] # "idle"
    /\ signature[p] = "valid"
    /\ event[p].type = "message.new"
    /\ event[p].message = m

CallsOf(p) == {c \in calls : c.origin = p}

OpsOf(p) == {c.op : c \in CallsOf(p)}

\* p's call of op with option opt, whatever its outcome
Made(p, op, opt) == \E c \in CallsOf(p) : c.op = op /\ c.opt = opt

\* p's call of op with option opt resolved without error
Succeeded(p, op, opt) == \E c \in CallsOf(p) : c.op = op /\ c.opt = opt /\ c.error = "none"

\* p went on from the idempotency guard to classification
PastAdmission(p) == "ProcessedMessage.create" \in OpsOf(p)

\* p has a verdict: its scan is over
Classified(p) == PastAdmission(p) /\ pc[p] \notin {"scanText", "loadKeywords"}

Verdict(p) == scanResult[p].severity

QueueItemsOf(p) == {q \in moderationQueue : q._id = p}

ReportsOf(p) == {r \in reports : r._id = p}

AuditsOf(p) == {a \in auditLog : a._id = p}

QueueItemsFor(m) == {q \in moderationQueue : q.payload.messageId = m}

DecisionsFor(m) ==
    {a \in auditLog : a.target = m
                      /\ a.action \in {"message_moderated_high", "message_flagged_medium"}}

RecordsFor(m) == {r \in processedMessages : r.messageId = m}

\* no lookup or insert of the idempotency store has failed for m
StoreAnswered(m) ==
    \A c \in calls :
        c.op \in {"ProcessedMessage.findOne", "ProcessedMessage.create"} /\ c.id = m
            => c.error # "failed"

\* every document ever written for m is still inside its retention window
WithinRetention(m) == m \notin swept /\ \A r \in RecordsFor(m) : ~Expired(r)

\* the successful $inc calls on the flagged counter of room cid
FlagIncrements(cid) ==
    {c \in calls : c.op = "ChatRoom.updateOne" /\ c.opt = "flaggedCount"
                   /\ c.id = cid /\ c.error = "none"}

\* the flagged counter of every room counts those calls, one each
FlaggedCountIsCalls ==
    \A cid \in RoomIds : chatRooms[cid].flaggedCount = Cardinality(FlagIncrements(cid))

(* ----------------------------- C1 .. C10 ------------------------------- *)

\* C1: of the deliveries of one message id, at most one goes on from the
\* idempotency guard to classification and dispatch (stated for runs in which
\* no call has failed and no time has passed, so that only the interleaving of
\* the deliveries is in play).
C1_SingleAdmission ==
    (faults = 0 /\ now = 0) =>
        \A m \in MessageIds :
            Cardinality({p \in Requests : Delivers(p, m) /\ PastAdmission(p)}) <= 1

\* C2: for one message id the audit trail holds at most one automated
\* decision record and the queue at most one automatically created item
\* (stated, as C1, for runs without failed calls and within week 0).
C2_SingleDecision ==
    (faults = 0 /\ now = 0) =>
        \A m \in MessageIds :
            /\ Cardinality(DecisionsFor(m)) <= 1
            /\ Cardinality(QueueItemsFor(m)) <= 1

\* p is a delivery of a message id that an earlier, already answered delivery
\* carried through admission, while the idempotency store answers and the
\* record is retained
Redelivery(p) ==
    /\ Done(p)
    /\ \E m \in MessageIds :
        /\ Delivers(p, m)
        /\ \E q \in after[p] : Delivers(q, m) /\ PastAdmission(q)
        /\ StoreAnswered(m)
        /\ WithinRetention(m)

\* C3: a redelivery within the retention window, with the idempotency store
\* answering, is a no-op: its only call is the lookup, it writes nothing, it
\* is answered 200, and one ProcessedMessage document exists for the id.
C3_RedeliveryIsNoOp ==
    \A p \in Requests :
        Redelivery(p) =>
            /\ CallsOf(p) = {Call(p, "ProcessedMessage.findOne", messageId(p), "", "none")}
            /\ scanResult[p] = EmptyScan
            /\ QueueItemsOf(p) = {} /\ ReportsOf(p) = {} /\ AuditsOf(p) = {}
            /\ response[p] = [status |-> 200, success |-> TRUE]
            /\ Cardinality(RecordsFor(messageId(p))) = 1

C3_Witness ==
    \E p \in Requests :
        /\ Redelivery(p)
        /\ \E q \in after[p] : Delivers(q, messageId(p)) /\ QueueItemsOf(q) # {}

\* C4: a request whose signature is missing or fails verification is answered
\* 401 at once: no lookup, no record, no scan, no write, no provider call.
C4_BadSignatureRejected ==
    \A p \in Requests :
        (pc[p] # "idle" /\ signature[p] # "valid") =>
            /\ Done(p)
            /\ response[p] = [status |-> 401, success |-> FALSE]
            /\ CallsOf(p) = {}
            /\ scanResult[p] = EmptyScan
            /\ QueueItemsOf(p) = {} /\ ReportsOf(p) = {} /\ AuditsOf(p) = {}

C4_Witness ==
    \E p, q \in Requests :
        /\ Done(p) /\ signature[p] = "invalid" /\ event[p].type = "message.new"
        /\ Done(q) /\ signature[q] = "missing" /\ event[q].type = "message.new"
        /\ processedMessages = {}

\* the writes whose failure propagates to the catch of the handler
DurableOps ==
    {"ModerationQueue.create", "Report.create", "ChatRoom.updateOne", "AuditLog.create",
     "MetricsMessagesDaily.updateOne"}

\* the calls whose failure is caught where they are made
BestEffortOps ==
    {"streamClient.deleteMessage", "streamClient.flagMessage",
     "pushService.notifyModerators", "pushService.sendCrisisResources"}

NoWriteFailed(p) == \A c \in CallsOf(p) : c.op \in DurableOps => c.error = "none"

BestEffortFailed(p) == \E c \in CallsOf(p) : c.op \in BestEffortOps /\ c.error = "failed"

\* p is answered and its scan gave this verdict
Handled(p, severity) == Done(p) /\ Classified(p) /\ Verdict(p) = severity

\* C5: once a delivery of an unsafe message has failed in a durable write after
\* its idempotency record was inserted, and a later delivery of the same
\* message has been answered, the queue holds an item for the message.
C5_RedeliveryRecovers ==
    \A p, q \in Requests :
        \A m \in MessageIds :
            ( /\ Delivers(q, m) /\ Done(q) /\ Classified(q)
              /\ Verdict(q) \in {MEDIUM, HIGH}
              /\ Succeeded(q, "ProcessedMessage.create", "")
              /\ ~NoWriteFailed(q)
              /\ Delivers(p, m) /\ Done(p) /\ q \in after[p] )
            => QueueItemsFor(m) # {}

\* C6: a HIGH verdict whose durable writes all succeed leaves one unprocessed
\* queue item of severity 3, one automatic report under review, one hard
\* delete call, both notifications, one increment of the room's flagged
\* counter and one audit record message_moderated_high.
C6_HighDispatch ==
    /\ FlaggedCountIsCalls
    /\ \A p \in Requests :
        (Handled(p, HIGH) /\ NoWriteFailed(p)) =>
            /\ Cardinality(QueueItemsOf(p)) = 1
            /\ \A q \in QueueItemsOf(p) :
                  q.severity = 3 /\ ~q.processed /\ q.payload.messageId = messageId(p)
            /\ Cardinality(ReportsOf(p)) = 1
            /\ \A r \in ReportsOf(p) :
                  r.targetType = "message" /\ r.targetId = messageId(p)
                      /\ r.status = "under_review"
            /\ {[id |-> c.id, opt |-> c.opt] :
                    c \in {x \in CallsOf(p) : x.op = "streamClient.deleteMessage"}}
                  = {[id |-> messageId(p), opt |-> "hard"]}
            /\ Made(p, "pushService.notifyModerators", "high")
            /\ \E c \in CallsOf(p) : c.op = "pushService.sendCrisisResources" /\ c.id = userId(p)
            /\ \E c \in FlagIncrements(channelId(p)) : c.origin = p
            /\ Cardinality(AuditsOf(p)) = 1
            /\ \A a \in AuditsOf(p) :
                  a.action = "message_moderated_high" /\ a.target = messageId(p)

C6_Witness ==
    \E p \in Requests :
        /\ Handled(p, HIGH) /\ NoWriteFailed(p)
        /\ chatRooms[channelId(p)].flaggedCount = 1
        /\ response[p] = [status |-> 200, success |-> TRUE]

\* C7: in HIGH dispatch a failed delete or notification call leaves the queue
\* item and the report in place, the flagged-counter update is still made and,
\* unless a durable write fails itself, the audit record is written; the
\* response is 200.
C7_BestEffortFailureKeepsWrites ==
    \A p \in Requests :
        (Handled(p, HIGH) /\ BestEffortFailed(p)) =>
            /\ QueueItemsOf(p) # {}
            /\ ReportsOf(p) # {}
            /\ response[p].status = 200
            /\ Made(p, "ChatRoom.updateOne", "flaggedCount")
            /\ NoWriteFailed(p) =>
                  /\ \E c \in FlagIncrements(channelId(p)) : c.origin = p
                  /\ AuditsOf(p) # {}
                  /\ response[p].success

C7_Witness ==
    \E p \in Requests :
        /\ Handled(p, HIGH)
        /\ \E c \in CallsOf(p) : c.op = "streamClient.deleteMessage" /\ c.error = "failed"
        /\ AuditsOf(p) # {}
        /\ chatRooms[channelId(p)].flaggedCount = 1

\* C8: a MEDIUM verdict never deletes and never reports; when its durable
\* writes succeed it leaves one unprocessed queue item of severity 2, one flag
\* call, one increment of the flagged counter and one audit record, whether
\* or not the flag call failed.
C8_MediumDispatch ==
    \A p \in Requests :
        (Classified(p) /\ Verdict(p) = MEDIUM) =>
            /\ "streamClient.deleteMessage" \notin OpsOf(p)
            /\ "Report.create" \notin OpsOf(p)
            /\ ReportsOf(p) = {}
            /\ (Done(p) /\ NoWriteFailed(p)) =>
                  /\ Cardinality(QueueItemsOf(p)) = 1
                  /\ \A q \in QueueItemsOf(p) :
                        q.severity = 2 /\ ~q.processed /\ q.payload.messageId = messageId(p)
                  /\ {[id |-> c.id, opt |-> c.opt] :
                          c \in {x \in CallsOf(p) : x.op = "streamClient.flagMessage"}}
                        = {[id |-> messageId(p), opt |-> "system"]}
                  /\ \E c \in FlagIncrements(channelId(p)) : c.origin = p
                  /\ Cardinality(AuditsOf(p)) = 1
                  /\ \A a \in AuditsOf(p) :
                        a.action = "message_flagged_medium" /\ a.target = messageId(p)

C8_Witness ==
    \E p \in Requests :
        /\ Handled(p, MEDIUM) /\ NoWriteFailed(p)
        /\ \E c \in CallsOf(p) : c.op = "streamClient.flagMessage" /\ c.error = "failed"
        /\ chatRooms[channelId(p)].flaggedCount = 1
        /\ AuditsOf(p) # {}

\* the calls of a request that takes no provider-side action and touches no counter
PassiveOps ==
    {"ProcessedMessage.findOne", "ProcessedMessage.create", "ModerationKeyword.find",
     "ChatRoom.updateOne", "MetricsMessagesDaily.updateOne"}

\* C9: a LOW verdict makes no provider call, no report, no audit record and
\* no change to the flagged counter; when its writes succeed it leaves one
\* unprocessed queue item of severity 1.
C9_LowDispatch ==
    /\ FlaggedCountIsCalls
    /\ \A p \in Requests :
        (Classified(p) /\ Verdict(p) = LOW) =>
            /\ OpsOf(p) \subseteq PassiveOps \cup {"ModerationQueue.create"}
            /\ ~Made(p, "ChatRoom.updateOne", "flaggedCount")
            /\ ReportsOf(p) = {} /\ AuditsOf(p) = {}
            /\ (Done(p) /\ NoWriteFailed(p)) =>
                  /\ Cardinality(QueueItemsOf(p)) = 1
                  /\ \A q \in QueueItemsOf(p) :
                        q.severity = 1 /\ ~q.processed /\ q.payload.messageId = messageId(p)

C9_Witness ==
    \E p \in Requests :
        /\ Handled(p, LOW) /\ NoWriteFailed(p)
        /\ QueueItemsOf(p) # {}
        /\ chatRooms[channelId(p)].flaggedCount = 0
        /\ chatRooms[channelId(p)].lastMessageAt = now

\* C10: a NONE verdict creates no queue item, report or audit record, makes no
\* provider call and no change to the flagged counter: its calls are the
\* idempotency lookup and insert, the keyword load and the metrics update.
C10_NoneDispatch ==
    /\ FlaggedCountIsCalls
    /\ \A p \in Requests :
        (Classified(p) /\ Verdict(p) = NONE) =>
            /\ OpsOf(p) \subseteq PassiveOps
            /\ ~Made(p, "ChatRoom.updateOne", "flaggedCount")
            /\ QueueItemsOf(p) = {} /\ ReportsOf(p) = {} /\ AuditsOf(p) = {}
            /\ (Done(p) /\ NoWriteFailed(p)) =>
                  /\ Succeeded(p, "ChatRoom.updateOne", "lastMessageAt")
                  /\ Succeeded(p, "MetricsMessagesDaily.updateOne", "count")

C10_Witness ==
    \E p \in Requests :
        /\ Handled(p, NONE) /\ NoWriteFailed(p)
        /\ RecordsFor(messageId(p)) # {}
        /\ metricsDaily[Today(now)] = 1
        /\ moderationQueue = {} /\ reports = {} /\ auditLog = {}

\* the calls of updateMetricsAndChatRoom
MetricsOps == {"MetricsMessagesDaily.updateOne"}

\* no call of updateMetricsAndChatRoom itself, and no storage read of the
\* scan, has failed for p: whatever failed for p failed in dispatch
OnlyDispatchFailed(p) ==
    \A c \in CallsOf(p) :
        c.error = "failed" =>
            /\ c.op \in DurableOps \cup BestEffortOps
            /\ c.op \notin MetricsOps
            /\ ~(c.op = "ChatRoom.updateOne" /\ c.opt = "lastMessageAt")

\* C15: every admitted event that has been answered, and whose failures (if
\* any) were failures of dispatch steps, has written the room's last-activity
\* timestamp and incremented the per-day counter, once each.
C15_AdmittedReachesMetrics ==
    \A p \in Requests :
        (Done(p) /\ PastAdmission(p) /\ OnlyDispatchFailed(p)) =>
            /\ Cardinality({c \in CallsOf(p) : c.op = "ChatRoom.updateOne"
                                                /\ c.opt = "lastMessageAt"}) = 1
            /\ Cardinality({c \in CallsOf(p) : c.op \in MetricsOps}) = 1
            /\ Succeeded(p, "MetricsMessagesDaily.updateOne", "count")

\* C16: a request with a present and valid signature is answered 200 whatever
\* its event and whatever fails afterwards; 401 answers a missing or invalid
\* signature only.
C16_ValidSignatureAnswered200 ==
    \A p \in Requests :
        Done(p) =>
            /\ signature[p] = "valid" => response[p].status = 200
            /\ response[p].status = 401 => signature[p] # "valid"
            /\ response[p].status \in {200, 401}

C16_Witness ==
    \E p, q \in Requests :
        /\ Done(p) /\ signature[p] = "valid" /\ event[p].message = "msg-anon"
        /\ response[p] = [status |-> 200, success |-> FALSE]
        /\ Done(q) /\ signature[q] = "valid" /\ PastAdmission(q) /\ ~NoWriteFailed(q)
        /\ response[q] = [status |-> 200, success |-> FALSE]

(* ------------------------- moderation workflow ------------------------- *)

\* bannedUntil.setFullYear(bannedUntil.getFullYear() + 10)
PermanentBanYears == 10

DaysPerYear == 365

\* the reports users filed through createReport, still open
UserReportId == NumDeliveries + NumModerations + 1

ChannelReportId == NumDeliveries + NumModerations + 2

\* the document of Report.create in createReport
FiledReport(id, targetType, targetId) ==
    [_id        |-> id,
     targetType |-> targetType,
     targetId   |-> targetId,
     reason     |-> <<"reported">>,
     status     |-> "open",
     resolvedAt |-> NoDate,
     moderatorId |-> NoUser,
     moderatorComment |-> ""]

\* req.body.comment of a moderator request
comment(k) == "reviewed by " \o moderatorId(k)

\* the next await of moderator request k
Advance(k, label) == step' = [step EXCEPT ![k] = label]

\* res.status(200).json({ success: true, ... }): the request ends
Succeed(k) ==
    /\ step' = [step EXCEPT ![k] = "done"]
    /\ reply' = [reply EXCEPT ![k] = [status |-> 200, code |-> "OK"]]

\* throw new AppError(message, status, code), answered by errorHandler
Throw(k, status, code) ==
    /\ step' = [step EXCEPT ![k] = "done"]
    /\ reply' = [reply EXCEPT ![k] = [status |-> status, code |-> code]]

\* an error of the storage layer reaches errorHandler's default branch
Reject(k) == Throw(k, 500, "INTERNAL_ERROR")

\* the moderator requests already answered
Answered == {j \in Moderations : step[j] = "done"}

\* a moderator request arrives; requests are numbered in the order they arrive
Arrive(k, req) ==
    /\ step[k] = "idle"
    /\ \A j \in Moderations : j < k => step[j] # "idle"
    /\ request' = [request EXCEPT ![k] = req]
    /\ before' = [before EXCEPT ![k] = Answered]

Hold(k, doc) == loaded' = [loaded EXCEPT ![k].doc = doc]

\* Model.findById(id) on a collection of documents
FindById(collection, id) ==
    IF \E d \in collection : d._id = id
    THEN CHOOSE d \in collection : d._id = id
    ELSE NoDocument

\* the ids a moderator may name: those of the documents, and one of none
IdsOf(collection) == {d._id : d \in collection} \cup {MissingId}

(* processQueueItem *)

\* POST /api/moderation/queue/:id/process up to its first await
processQueueItem(k) ==
    /\ \E id \in IdsOf(moderationQueue) :
        Arrive(k, [op |-> "processQueueItem", id |-> id, action |-> "-",
                   banDurationHours |-> NoDuration])
    /\ Advance(k, "findQueueItem")
    /\ UNCHANGED <<authVars, classifyVars, scans, now, faults, requestVars, calls, storeVars, scannerVars, loaded, reply>>

\* faulty variant: the processed flag of the item read is ignored
AlreadyProcessedIgnored(queueItem) == FALSE

\* if (queueItem.processed)
AlreadyProcessed(queueItem) == queueItem.processed

\* await ModerationQueue.findById(id), the two guards, and the assignments
\* to the document in memory
findQueueItem(k) ==
    /\ step[k] = "findQueueItem"
    /\ \E ok \in Outcomes :
        LET queueItem == FindById(moderationQueue, request[k].id) IN
        /\ Count(ok)
        /\ Record(k, "ModerationQueue.findById", ToString(request[k].id), "", Error(ok))
        /\ IF ~ok THEN Reject(k) /\ UNCHANGED loaded
           ELSE IF queueItem = NoDocument
           THEN Throw(k, 404, "QUEUE_ITEM_NOT_FOUND") /\ UNCHANGED loaded
           ELSE IF AlreadyProcessed(queueItem)
           THEN Throw(k, 400, "ALREADY_PROCESSED") /\ UNCHANGED loaded
           ELSE /\ Hold(k, [queueItem EXCEPT !.processed = TRUE, !.processedAt = now])
                /\ Advance(k, "saveQueueItem") /\ UNCHANGED reply
    /\ UNCHANGED <<authVars, classifyVars, scans, now, requestVars, storeVars, scannerVars, request, before>>

\* document.save(): the modified paths are written to the stored document
SaveQueueItem(collection, doc) ==
    {IF q._id = doc._id
     THEN [q EXCEPT !.processed = doc.processed, !.processedAt = doc.processedAt]
     ELSE q : q \in collection}

\* await queueItem.save()
saveQueueItem(k) ==
    /\ step[k] = "saveQueueItem"
    /\ \E ok \in Outcomes :
        /\ Count(ok)
        /\ Record(k, "ModerationQueue.save", ToString(loaded[k].doc._id), "", Error(ok))
        /\ IF ok
           THEN /\ moderationQueue' = SaveQueueItem(moderationQueue, loaded[k].doc)
                /\ Advance(k, "auditQueueItem") /\ UNCHANGED reply
           ELSE /\ UNCHANGED moderationQueue
                /\ Reject(k)
    /\ UNCHANGED <<authVars, classifyVars, scans, now, requestVars, scannerVars, request, loaded, before,
                   processedMessages, reports, auditLog, chatRooms, metricsDaily, swept,
                   users, keywordStore>>

\* the document of AuditLog.create in processQueueItem
ProcessedAuditEntry(k) ==
    [_id    |-> k,
     action |-> "queue_item_processed",
     actor  |-> moderatorId(k),
     target |-> ToString(loaded[k].doc._id),
     meta   |-> [severity |-> loaded[k].doc.severity, reasonTags |-> loaded[k].doc.reasonTags]]

\* await AuditLog.create(...) and the 200 response
auditQueueItem(k) ==
    /\ step[k] = "auditQueueItem"
    /\ \E ok \in Outcomes :
        /\ Count(ok)
        /\ Record(k, "AuditLog.create", ToString(loaded[k].doc._id), "queue_item_processed",
                  Error(ok))
        /\ IF ok
           THEN /\ auditLog' = auditLog \cup {ProcessedAuditEntry(k)}
                /\ Succeed(k)
           ELSE /\ UNCHANGED auditLog
                /\ Reject(k)
    /\ UNCHANGED <<authVars, classifyVars, scans, now, requestVars, scannerVars, request, loaded, before,
                   processedMessages, moderationQueue, reports, chatRooms, metricsDaily, swept,
                   users, keywordStore>>

(* resolveModerationAction *)

\* POST /api/moderation/resolve up to its first await; the body has passed
\* validate(schemas.resolveModeration)
resolveModerationAction(k) ==
    /\ \E id \in IdsOf(reports), action \in ModerationAction :
        \E hours \in (IF action = "banUser" THEN BanDurations ELSE {NoDuration}) :
            Arrive(k, [op |-> "resolveModerationAction", id |-> id, action |-> action,
                       banDurationHours |-> hours])
    /\ Advance(k, "findReport")
    /\ UNCHANGED <<authVars, classifyVars, scans, now, faults, requestVars, calls, storeVars, scannerVars, loaded, reply>>

\* faulty variant: the report is given the wrong member of ReportStatus
ResolvedAsUnderReview(k, report) ==
    [report EXCEPT !.status = "under_review",
                   !.moderatorId = moderatorId(k),
                   !.moderatorComment = comment(k),
                   !.resolvedAt = now]

\* the assignments before await report.save(): they run when the await before
\* them resolves
Resolved(k, report) ==
    [report EXCEPT !.status = "resolved",
                   !.moderatorId = moderatorId(k),
                   !.moderatorComment = comment(k),
                   !.resolvedAt = now]

\* the switch is over: on to report.save()
ToSaveReport(k, details) ==
    /\ loaded' = [loaded EXCEPT ![k].doc = Resolved(k, loaded[k].doc),
                                ![k].details = details]
    /\ Advance(k, "saveReport")

\* faulty variant: the error of the provider call leaves the handler
AttemptRethrows(k, ok, details) ==
    IF ok THEN ToSaveReport(k, details) /\ UNCHANGED reply
    ELSE Reject(k) /\ UNCHANGED loaded

\* try { await streamClient...; } catch (error) { logger.error(...); }: the
\* switch goes on to its break whether the provider call failed or not
Attempt(k, ok, details) == ToSaveReport(k, details) /\ UNCHANGED reply

\* faulty variant: case DISMISS has no break and falls through to case REMOVE
FirstAwaitFallsThrough(action, targetType) ==
    CASE action \in {"dismiss", "remove"} /\ targetType = "message"    -> "deleteMessage"
      [] action = "banUser" /\ targetType \in {"message", "user"}      -> "findUser"
      [] action = "suspendChannel" /\ targetType = "channel"           -> "findChatRoom"
      [] OTHER                                                         -> "saveReport"

\* the first await of the case of the switch, if it has one
FirstAwait(action, targetType) ==
    CASE action = "remove" /\ targetType = "message"                   -> "deleteMessage"
      [] action = "banUser" /\ targetType \in {"message", "user"}      -> "findUser"
      [] action = "suspendChannel" /\ targetType = "channel"           -> "findChatRoom"
      [] OTHER                                                         -> "saveReport"

\* faulty variant: a resolved report is resolved again
AlreadyResolvedIgnored(report) == FALSE

\* report.status === ReportStatus.RESOLVED
AlreadyResolved(report) == report.status = "resolved"

\* await Report.findById(reportId), the two guards, and the switch up to its
\* first await
findReport(k) ==
    /\ step[k] = "findReport"
    /\ \E ok \in Outcomes :
        LET report == FindById(reports, request[k].id) IN
        /\ Count(ok)
        /\ Record(k, "Report.findById", ToString(request[k].id), "", Error(ok))
        /\ IF ~ok THEN Reject(k) /\ UNCHANGED loaded
           ELSE IF report = NoDocument
           THEN Throw(k, 404, "REPORT_NOT_FOUND") /\ UNCHANGED loaded
           ELSE IF AlreadyResolved(report)
           THEN Throw(k, 400, "ALREADY_RESOLVED") /\ UNCHANGED loaded
           ELSE LET next == FirstAwait(request[k].action, report.targetType) IN
                /\ loaded' = [loaded EXCEPT ![k].doc =
                                 IF next = "saveReport" THEN Resolved(k, report) ELSE report]
                /\ Advance(k, next) /\ UNCHANGED reply
    /\ UNCHANGED <<authVars, classifyVars, scans, now, requestVars, storeVars, scannerVars, request, before>>

\* case REMOVE: try { await streamClient.deleteMessage(report.targetId, true) }
deleteMessage(k) ==
    /\ step[k] = "deleteMessage"
    /\ \E ok \in Outcomes :
        /\ Count(ok)
        /\ Record(k, "streamClient.deleteMessage", loaded[k].doc.targetId, "hard", Error(ok))
        /\ Attempt(k, ok, [loaded[k].details EXCEPT
                               !.messageDeleted = IF ok THEN "true" ELSE "false"])
    /\ UNCHANGED <<authVars, classifyVars, scans, now, requestVars, storeVars, scannerVars, request, before>>

\* new Date() plus banDurationHours, or plus ten years
BanExpiry(t, hours) ==
    IF hours # NoDuration
    THEN t + hours * MinutesPerHour
    ELSE t + PermanentBanYears * DaysPerYear * MinutesPerDay

\* faulty variant: for a report on a message the moderator's own id is taken
targetUserIdIsModerator(k) ==
    IF loaded[k].doc.targetType = "message" THEN moderatorId(k) ELSE loaded[k].doc.targetId

\* let targetUserId = report.targetId, for a report on a message too
targetUserId(k) == loaded[k].doc.targetId

\* case BAN_USER: await User.findById(report.targetId).  The id of a message
\* is no user id: the lookup finds nothing, or rejects it as no ObjectId.
findUser(k) ==
    /\ step[k] = "findUser"
    /\ \E ok \in Outcomes, castable \in BOOLEAN :
        /\ Count(ok)
        /\ Record(k, "User.findById", targetUserId(k), "",
                  IF ok /\ targetUserId(k) \notin UserIds /\ ~castable
                  THEN "CastError" ELSE Error(ok))
        /\ IF ~ok THEN Reject(k) /\ UNCHANGED loaded
           ELSE IF targetUserId(k) \in UserIds
           THEN /\ castable
                /\ loaded' = [loaded EXCEPT ![k].bannedUntil =
                                 BanExpiry(now, request[k].banDurationHours)]
                /\ Advance(k, "saveUser") /\ UNCHANGED reply
           ELSE IF castable
           THEN ToSaveReport(k, loaded[k].details) /\ UNCHANGED reply
           ELSE Reject(k) /\ UNCHANGED loaded
    /\ UNCHANGED <<authVars, classifyVars, scans, now, requestVars, storeVars, scannerVars, request, before>>

\* user.bannedUntil = bannedUntil; await user.save()
saveUser(k) ==
    /\ step[k] = "saveUser"
    /\ \E ok \in Outcomes :
        /\ Count(ok)
        /\ Record(k, "User.save", targetUserId(k), "bannedUntil", Error(ok))
        /\ IF ok
           THEN /\ users' = [users EXCEPT ![targetUserId(k)].bannedUntil =
                                              loaded[k].bannedUntil]
                /\ Advance(k, "banUser") /\ UNCHANGED reply
           ELSE /\ UNCHANGED users
                /\ Reject(k)
    /\ UNCHANGED <<authVars, classifyVars, scans, now, requestVars, scannerVars, request, loaded, before,
                   processedMessages, moderationQueue, reports, auditLog, chatRooms,
                   metricsDaily, swept, keywordStore>>

\* try { await streamClient.banUser(targetUserId, ...) }
banUser(k) ==
    /\ step[k] = "banUser"
    /\ \E ok \in Outcomes :
        /\ Count(ok)
        /\ Record(k, "streamClient.banUser", targetUserId(k), moderatorId(k), Error(ok))
        /\ Attempt(k, ok, [loaded[k].details EXCEPT
                               !.streamBanned = IF ok THEN "true" ELSE "false",
                               !.bannedUntil = loaded[k].bannedUntil])
    /\ UNCHANGED <<authVars, classifyVars, scans, now, requestVars, storeVars, scannerVars, request, before>>

\* case SUSPEND_CHANNEL: await ChatRoom.findOne({ streamChannelId }), then
\* chatRoom.flaggedCount += 100 on the document in memory
findChatRoom(k) ==
    /\ step[k] = "findChatRoom"
    /\ \E ok \in Outcomes :
        LET cid == loaded[k].doc.targetId IN
        /\ Count(ok)
        /\ Record(k, "ChatRoom.findOne", cid, "", Error(ok))
        /\ IF ~ok THEN Reject(k) /\ UNCHANGED loaded
           ELSE IF cid \notin DOMAIN chatRooms
           THEN ToSaveReport(k, loaded[k].details) /\ UNCHANGED reply
           ELSE /\ loaded' = [loaded EXCEPT ![k].flaggedCount =
                                 chatRooms[cid].flaggedCount + 100]
                /\ Advance(k, "saveChatRoom") /\ UNCHANGED reply
    /\ UNCHANGED <<authVars, classifyVars, scans, now, requestVars, storeVars, scannerVars, request, before>>

\* await chatRoom.save(): $set of the counter computed in memory
saveChatRoom(k) ==
    /\ step[k] = "saveChatRoom"
    /\ \E ok \in Outcomes :
        /\ Count(ok)
        /\ Record(k, "ChatRoom.save", loaded[k].doc.targetId, "flaggedCount", Error(ok))
        /\ IF ok
           THEN /\ chatRooms' = [chatRooms EXCEPT ![loaded[k].doc.targetId].flaggedCount =
                                                      loaded[k].flaggedCount]
                /\ ToSaveReport(k, [loaded[k].details EXCEPT !.channelSuspended = "true"])
                /\ UNCHANGED reply
           ELSE /\ UNCHANGED <<chatRooms, loaded>>
                /\ Reject(k)
    /\ UNCHANGED <<authVars, classifyVars, scans, now, requestVars, scannerVars, request, before,
                   processedMessages, moderationQueue, reports, auditLog, metricsDaily, swept,
                   users, keywordStore>>

\* document.save(): the modified paths are written to the stored document
SaveReport(collection, doc) ==
    {IF r._id = doc._id
     THEN [r EXCEPT !.status = doc.status, !.moderatorId = doc.moderatorId,
                    !.moderatorComment = doc.moderatorComment,
                    !.resolvedAt = doc.resolvedAt]
     ELSE r : r \in collection}

\* await report.save()
saveReport(k) ==
    /\ step[k] = "saveReport"
    /\ \E ok \in Outcomes :
        /\ Count(ok)
        /\ Record(k, "Report.save", ToString(loaded[k].doc._id), request[k].action, Error(ok))
        /\ IF ok
           THEN /\ reports' = SaveReport(reports, loaded[k].doc)
                /\ Advance(k, "auditResolution") /\ UNCHANGED reply
           ELSE /\ UNCHANGED reports
                /\ Reject(k)
    /\ UNCHANGED <<authVars, classifyVars, scans, now, requestVars, scannerVars, request, loaded, before,
                   processedMessages, moderationQueue, auditLog, chatRooms, metricsDaily, swept,
                   users, keywordStore>>

\* the document of AuditLog.create in resolveModerationAction
ResolvedAuditEntry(k) ==
    [_id    |-> k,
     action |-> "moderation_resolved",
     actor  |-> moderatorId(k),
     target |-> loaded[k].doc.targetType \o ":" \o loaded[k].doc.targetId,
     meta   |-> [reportId |-> loaded[k].doc._id, action |-> request[k].action,
                 details |-> loaded[k].details]]

\* await AuditLog.create(...) and the 200 response
auditResolution(k) ==
    /\ step[k] = "auditResolution"
    /\ \E ok \in Outcomes :
        /\ Count(ok)
        /\ Record(k, "AuditLog.create", ToString(loaded[k].doc._id), "moderation_resolved",
                  Error(ok))
        /\ IF ok
           THEN /\ auditLog' = auditLog \cup {ResolvedAuditEntry(k)}
                /\ Succeed(k)
           ELSE /\ UNCHANGED auditLog
                /\ Reject(k)
    /\ UNCHANGED <<authVars, classifyVars, scans, now, requestVars, scannerVars, request, loaded, before,
                   processedMessages, moderationQueue, reports, chatRooms, metricsDaily, swept,
                   users, keywordStore>>

(* the moderators at work *)

\* the webhook delivery that left the moderators something to review
FirstDelivery == CHOOSE p \in Requests : \A q \in Requests : p <= q

\* the state after one delivery of msg-123 was handled without a failure and
\* two users filed a report each; the call log starts with the moderators
ModInit ==
    /\ now = 0
    /\ faults = 0
    /\ pc = [p \in Requests |-> IF p = FirstDelivery THEN "done" ELSE "idle"]
    /\ signature = [p \in Requests |-> IF p = FirstDelivery THEN "valid" ELSE "missing"]
    /\ event = [p \in Requests |->
                   IF p = FirstDelivery THEN [type |-> "message.new", message |-> "msg-123"]
                   ELSE NoEvent]
    /\ loadNow = [p \in Requests |-> NoDate]
    /\ scanResult = [p \in Requests |->
                        IF p = FirstDelivery THEN Scan(FindEnabled(KeywordsDb), "msg-123")
                        ELSE EmptyScan]
    /\ response = [p \in Requests |->
                      IF p = FirstDelivery THEN [status |-> 200, success |-> TRUE] ELSE NoResponse]
    /\ after = [p \in Requests |-> {}]
    /\ calls = {}
    /\ processedMessages = {[messageId |-> "msg-123", processedAt |-> 0]}
    /\ moderationQueue = {QueueEntry(FirstDelivery, getSeverityScore(HIGH))}
    /\ reports = {AutomaticReport(FirstDelivery),
                  FiledReport(UserReportId, "user", "user-456"),
                  FiledReport(ChannelReportId, "channel", "messaging:channel-123")}
    /\ auditLog = {AuditEntry(FirstDelivery, "message_moderated_high", HIGH)}
    /\ chatRooms = [r \in RoomIds |->
                       IF r = "messaging:channel-123"
                       THEN [flaggedCount |-> 1, lastMessageAt |-> 0]
                       ELSE [flaggedCount |-> 0, lastMessageAt |-> NoDate]]
    /\ metricsDaily = [d \in Days |-> IF d = Today(0) THEN 1 ELSE 0]
    /\ cache = FindEnabled(KeywordsDb)
    /\ lastCacheUpdate = 0
    /\ swept = {}
    /\ users = [u \in UserIds |-> [bannedUntil |-> NoDate]]
    /\ keywordStore = KeywordsDb
    /\ step = [k \in Moderations |-> "idle"]
    /\ request = [k \in Moderations |-> NoRequest]
    /\ loaded = [k \in Moderations |-> NoLoaded]
    /\ reply = [k \in Moderations |-> NoReply]
    /\ before = [k \in Moderations |-> {}]
    /\ cleared = FALSE
    /\ scans = [c \in Scans |-> NoScan]
    /\ Unissued
    /\ ruleSet = <<>>
    /\ sample = ""
    /\ outcome = NoOutcome
    /\ issued = NoToken
    /\ verified = NoVerdict
    /\ sessions = [a \in Sessions |-> NoSession]

Moderate(k) ==
    \/ processQueueItem(k)
    \/ findQueueItem(k)
    \/ saveQueueItem(k)
    \/ auditQueueItem(k)
    \/ resolveModerationAction(k)
    \/ findReport(k)
    \/ deleteMessage(k)
    \/ findUser(k)
    \/ saveUser(k)
    \/ banUser(k)
    \/ findChatRoom(k)
    \/ saveChatRoom(k)
    \/ saveReport(k)
    \/ auditResolution(k)

ModNext ==
    \/ \E k \in Moderations : Moderate(k)
    \/ Tick

ModSpec == ModInit /\ [][ModNext]_vars

(* ------------------- claims on the moderation workflow ------------------ *)

\* moderator request k ran this handler on the document with this id
Asks(k, op, id) == step[k] # "idle" /\ request[k].op = op /\ request[k].id = id

\* k was answered with this status and code
Replied(k, status, code) ==
    step[k] = "done" /\ reply[k] = [status |-> status, code |-> code]

\* k wrote nothing: the lookup is the only call it made
OnlyRead(k, lookup) == OpsOf(k) \subseteq {lookup}

\* k arrived after an earlier request for the same document had succeeded
LaterOn(k, op, id) ==
    /\ Asks(k, op, id)
    /\ \E j \in before[k] : Asks(j, op, id) /\ Replied(j, 200, "OK")

ProcessedAuditsOf(id) ==
    {a \in auditLog : a.action = "queue_item_processed" /\ a.target = ToString(id)}

\* C11: a processQueueItem call that is answered with success has left its item
\* processed and timestamped and one queue_item_processed audit record of its
\* own; a call on the same item that arrives after it was answered fails with
\* ALREADY_PROCESSED (unless its lookup itself fails), writes nothing, and
\* adds no audit record.
C11_ProcessedOnce ==
    \A k \in Moderations : \A id \in IdsOf(moderationQueue) :
        /\ (Asks(k, "processQueueItem", id) /\ Replied(k, 200, "OK")) =>
              /\ \E q \in moderationQueue :
                    q._id = id /\ q.processed /\ q.processedAt # NoDate
              /\ Cardinality({a \in ProcessedAuditsOf(id) : a._id = k}) = 1
        /\ (LaterOn(k, "processQueueItem", id) /\ step[k] = "done") =>
              /\ \/ Replied(k, 400, "ALREADY_PROCESSED")
                 \/ Replied(k, 500, "INTERNAL_ERROR")
              /\ OnlyRead(k, "ModerationQueue.findById")
              /\ \A a \in ProcessedAuditsOf(id) : a._id # k

\* a second call on a processed item was turned away
C11_Witness ==
    \E k \in Moderations : \E id \in IdsOf(moderationQueue) :
        /\ LaterOn(k, "processQueueItem", id)
        /\ Replied(k, 400, "ALREADY_PROCESSED")
        /\ ProcessedAuditsOf(id) # {}

\* C14: a queue item is immutable once processed: no step changes or removes
\* a stored item whose processed flag is true.
C14_ProcessedItemImmutable ==
    [][\A q \in moderationQueue : q.processed => q \in moderationQueue']_vars

ResolvedAuditsOf(id) ==
    {a \in auditLog : a.action = "moderation_resolved" /\ a.meta.reportId = id}

\* the requests whose report.save() for this report went through
ResolversOf(id) ==
    {c.origin : c \in {x \in calls : /\ x.op = "Report.save"
                                     /\ x.id = ToString(id)
                                     /\ x.error = "none"}}

\* C12: a resolve call on a report that arrives after a resolve call on it was
\* answered with success fails with ALREADY_RESOLVED (unless its lookup itself
\* fails) and changes nothing: it makes no call besides the lookup, so no
\* provider call, no write to a user, a room or the report, and it adds no
\* audit record; the report stays resolved with the moderator and comment of
\* another request.
C12_ResolvedStaysResolved ==
    \A k \in Moderations : \A id \in IdsOf(reports) :
        (LaterOn(k, "resolveModerationAction", id) /\ step[k] = "done") =>
            /\ \/ Replied(k, 400, "ALREADY_RESOLVED")
               \/ Replied(k, 500, "INTERNAL_ERROR")
            /\ OnlyRead(k, "Report.findById")
            /\ k \notin ResolversOf(id)
            /\ \A a \in ResolvedAuditsOf(id) : a._id # k
            /\ \E r \in reports :
                  /\ r._id = id
                  /\ r.status = "resolved"
                  /\ r.resolvedAt # NoDate
                  /\ \E j \in ResolversOf(id) :
                        /\ r.moderatorId = moderatorId(j)
                        /\ r.moderatorComment = comment(j)

\* a second resolve call on a resolved report was turned away
C12_Witness ==
    \E k \in Moderations : \E id \in IdsOf(reports) :
        /\ LaterOn(k, "resolveModerationAction", id)
        /\ Replied(k, 400, "ALREADY_RESOLVED")
        /\ ResolvedAuditsOf(id) # {}

\* C13: whatever the interleaving of the resolve calls on a report, at most one
\* of them saves the report as resolved and at most one moderation_resolved
\* audit record is written for it.
C13_OneTerminalAction ==
    \A id \in IdsOf(reports) :
        /\ Cardinality(ResolversOf(id)) <= 1
        /\ Cardinality(ResolvedAuditsOf(id)) <= 1

(* --------------------------- keyword scanner --------------------------- *)

\* scanWith, tabulated over the keyword lists and the texts
TextScanTable ==
    {[keywords |-> keywords, text |-> t, result |-> scanWith(keywords, t)] :
        keywords \in KeywordLists, t \in Texts}

\* scanText on this text with these keywords loaded
ScanOf(keywords, t) ==
    (CHOOSE e \in TextScanTable : e.keywords = keywords /\ e.text = t).result

\* IsBlank, tabulated over the texts
BlankTexts == {t \in Texts : IsBlank(t)}

\* a method of keywordScanner is called; calls are numbered in the order
\* they are made
Enter(c, op, t) ==
    /\ scans[c].pc = "idle"
    /\ \A d \in Scans : d < c => scans[d].pc # "idle"
    /\ op \in {"scanText", "reloadKeywords"}
    /\ t \in Texts \cup {NoText}

\* the call as it begins, with the cache fields it finds
Entered(op, t) ==
    [NoScan EXCEPT !.op = op, !.text = t,
                   !.loadNow = IF t \in BlankTexts THEN NoDate ELSE now,
                   !.earlier = {d \in Scans : scans[d].pc = "done"},
                   !.cacheWas = cache, !.updateWas = lastCacheUpdate,
                   !.clearedWas = cleared]

\* the call returns: loadKeywords left by `from` with `keywords`, the cache
\* fields are as given
Returned(call, from, keywords, result, cacheNow, updateNow) ==
    [call EXCEPT !.pc = "done", !.loadedFrom = from, !.keywords = keywords,
                 !.result = result,
                 !.cacheLeft = cacheNow, !.updateLeft = updateNow]

\* the call is suspended at await ModerationKeyword.find
Suspended(call) == [call EXCEPT !.pc = "loadKeywords"]

\* keywordScanner.scanText(text) up to the storage read of loadKeywords
scanTextDirect(c) ==
    /\ \E t \in Texts :
        /\ Enter(c, "scanText", t)
        /\ scans' = [scans EXCEPT ![c] =
              IF t \in BlankTexts
              THEN Returned(Entered("scanText", t), "-", <<>>, EmptyScan,
                            cache, lastCacheUpdate)
              ELSE IF CacheValid(FALSE, now)
              THEN Returned(Entered("scanText", t), "cache", cache, ScanOf(cache, t),
                            cache, lastCacheUpdate)
              ELSE Suspended(Entered("scanText", t))]
    /\ UNCHANGED <<now, faults, requestVars, calls, storeVars, scannerVars, moderationVars, classifyVars, authVars>>

\* keywordScanner.reloadKeywords(): loadKeywords(true)
reloadKeywords(c) ==
    /\ Enter(c, "reloadKeywords", NoText)
    /\ scans' = [scans EXCEPT ![c] =
          IF CacheValid(TRUE, now)
          THEN Returned(Entered("reloadKeywords", NoText), "cache", cache, EmptyScan,
                        cache, lastCacheUpdate)
          ELSE Suspended(Entered("reloadKeywords", NoText))]
    /\ UNCHANGED <<now, faults, requestVars, calls, storeVars, scannerVars, moderationVars, classifyVars, authVars>>

\* await ModerationKeyword.find({ enabled: true }) in loadKeywords resolves or
\* rejects, and the caller goes on to its return
findKeywords(c) ==
    /\ scans[c].pc = "loadKeywords"
    /\ \E ok \in Outcomes :
        LET keywords == IF ok THEN FindEnabled(keywordStore) ELSE StaleCache(cache)
            result   == IF scans[c].op = "scanText"
                        THEN ScanOf(keywords, scans[c].text) ELSE EmptyScan
            stamp    == IF ok THEN scans[c].loadNow ELSE lastCacheUpdate
        IN
        /\ Count(ok)
        /\ Record(c, "ModerationKeyword.find", "", "", Error(ok))
        /\ cache' = IF ok THEN Replaced(cache, keywords) ELSE cache
        /\ lastCacheUpdate' = stamp
        /\ cleared' = (cleared /\ ~ok)
        /\ scans' = [scans EXCEPT ![c] =
              Returned(scans[c], IF ok THEN "storage" ELSE "stale", keywords, result,
                       cache', stamp)]
    /\ UNCHANGED <<now, requestVars, storeVars, moderationVars, classifyVars, authVars>>

\* faulty variant: the cache is emptied and its timestamp is kept
clearCacheKeepsTimestamp ==
    /\ cache' = <<>>
    /\ cleared' = TRUE
    /\ UNCHANGED <<now, faults, requestVars, calls, storeVars, deskVars, lastCacheUpdate>>

\* keywordScanner.clearCache()
clearCache ==
    /\ cache' = <<>>
    /\ lastCacheUpdate' = NoDate
    /\ cleared' = TRUE
    /\ UNCHANGED <<now, faults, requestVars, calls, storeVars, deskVars>>

\* ModerationKeyword.deleteMany({})
deleteMany ==
    /\ keywordStore # <<>>
    /\ keywordStore' = <<>>
    /\ UNCHANGED <<now, faults, requestVars, calls, scannerVars, deskVars,
                   processedMessages, moderationQueue, reports, auditLog, chatRooms,
                   metricsDaily, swept, users>>

\* ModerationKeyword.create of the keywords
createKeywords ==
    /\ keywordStore = <<>>
    /\ keywordStore' = KeywordsDb
    /\ UNCHANGED <<now, faults, requestVars, calls, scannerVars, deskVars,
                   processedMessages, moderationQueue, reports, auditLog, chatRooms,
                   metricsDaily, swept, users>>

\* cacheTTL in minutes
TTLMinutes == cacheTTL \div MsPerMinute

\* a minute passes, or all but one of the minutes of the TTL
Elapse ==
    /\ \E d \in {1, TTLMinutes - 1} :
        /\ now + d <= MaxMinute
        /\ now' = now + d
    /\ UNCHANGED <<faults, requestVars, calls, storeVars, scannerVars, deskVars>>

ScannerNext ==
    \/ \E c \in Scans : scanTextDirect(c) \/ reloadKeywords(c) \/ findKeywords(c)
    \/ clearCache
    \/ deleteMany
    \/ createKeywords
    \/ Elapse

ScannerSpec == Init /\ [][ScannerNext]_vars

(* --------------------- claims on the keyword scanner -------------------- *)

\* call c has gone through loadKeywords with this force argument
Loads(c, force) ==
    /\ scans[c].pc # "idle"
    /\ scans[c].loadNow # NoDate
    /\ force = (scans[c].op = "reloadKeywords")

\* the cache was refreshed less than the TTL before call c began
WasFresh(c) ==
    /\ scans[c].updateWas # NoDate
    /\ (scans[c].loadNow - scans[c].updateWas) * MsPerMinute < cacheTTL

\* call c read durable storage, or is about to
ReadsStorage(c) ==
    \/ scans[c].pc = "loadKeywords"
    \/ Made(c, "ModerationKeyword.find", "")

\* C17: a load with force = false that finds the cache refreshed less than the
\* TTL ago returns the cached rule set, empty or not, without reading storage;
\* a load with force = true or with an older cache reads storage, and when the
\* read succeeds it returns what it read.
C17_FreshCacheServed ==
    \A c \in Scans :
        /\ (Loads(c, FALSE) /\ WasFresh(c)) =>
              /\ ~ReadsStorage(c)
              /\ scans[c].pc = "done"
              /\ scans[c].loadedFrom = "cache"
              /\ scans[c].keywords = scans[c].cacheWas
        /\ ((Loads(c, TRUE) \/ (Loads(c, FALSE) /\ ~WasFresh(c))) /\ scans[c].pc = "done") =>
              /\ ReadsStorage(c)
              /\ scans[c].loadedFrom = "storage" => scans[c].keywords = scans[c].cacheLeft

\* the storage read of call c rejects in this step
ReadFails(c) ==
    /\ scans[c].pc = "loadKeywords"
    /\ \E x \in calls' \ calls :
          x.origin = c /\ x.op = "ModerationKeyword.find" /\ x.error = "failed"

\* the storage read of call c has rejected
ReadFailed(c) ==
    \E x \in CallsOf(c) : x.op = "ModerationKeyword.find" /\ x.error = "failed"

\* what scanText returns for call c when loadKeywords gives it these keywords
Classification(c, keywords) ==
    IF scans[c].op = "scanText" THEN ScanOf(keywords, scans[c].text) ELSE EmptyScan

\* C18: when the storage read of a load rejects, the load returns the cache as
\* it is, fresh or stale, the cache and its timestamp are left as they were,
\* and the caller returns with the text classified against that cache.
C18_FailedReadServesCache ==
    [][\A c \in Scans :
          ReadFails(c) =>
              /\ cache' = cache
              /\ lastCacheUpdate' = lastCacheUpdate
              /\ scans'[c].pc = "done"
              /\ scans'[c].keywords = cache
              /\ scans'[c].result = Classification(c, cache)]_vars

\* a scan whose read failed over a stale cache still found the keyword
C18_Witness ==
    \E c \in Scans :
        /\ scans[c].pc = "done"
        /\ scans[c].op = "scanText"
        /\ ReadFailed(c)
        /\ scans[c].updateWas # NoDate
        /\ ~WasFresh(c)
        /\ scans[c].keywords # <<>>
        /\ scans[c].result.severity = HIGH

OnlySpaces(t) == t # NoText /\ \A i \in DOMAIN Spelling[t] : Spelling[t][i] = " "

\* C20: scanText of an empty or whitespace-only text returns at once with
\* severity NONE, no matches and score 0; loadKeywords is not entered, no
\* storage read is made, and the cache and its timestamp are left as they were.
C20_BlankTextFastPath ==
    [][\A c \in Scans :
          (scans[c].pc = "idle" /\ scans'[c].pc # "idle" /\ OnlySpaces(scans'[c].text)) =>
              /\ scans'[c].pc = "done"
              /\ scans'[c].result = [severity |-> NONE, matches |-> <<>>, severityScore |-> 0]
              /\ scans'[c].loadNow = NoDate
              /\ scans'[c].loadedFrom = "-"
              /\ calls' = calls
              /\ cache' = cache
              /\ lastCacheUpdate' = lastCacheUpdate]_vars

\* a whitespace-only text was scanned while the cache was stale, and nothing
\* was read
C20_Witness ==
    \E c \in Scans :
        /\ scans[c].pc = "done"
        /\ scans[c].text = "   "
        /\ scans[c].result.severity = NONE
        /\ CallsOf(c) = {}
        /\ scans[c].cacheWas # <<>>
        /\ lastCacheUpdate # NoDate
        /\ ~CacheValid(FALSE, now)

(* ---------------------------- classification --------------------------- *)

\* the keywords rule sets are made of; the schema stores words trimmed and in
\* lower case
RulePool ==
    {[word |-> "stressed",    severity |-> LOW,    action |-> "flag",     isRegex |-> FALSE, enabled |-> TRUE],
     [word |-> "depressed",   severity |-> MEDIUM, action |-> "flag",     isRegex |-> FALSE, enabled |-> TRUE],
     [word |-> "suicide",     severity |-> HIGH,   action |-> "escalate", isRegex |-> FALSE, enabled |-> TRUE],
     [word |-> "kill myself", severity |-> HIGH,   action |-> "escalate", isRegex |-> FALSE, enabled |-> TRUE],
     [word |-> "stress",      severity |-> LOW,    action |-> "flag",     isRegex |-> FALSE, enabled |-> TRUE],
     [word |-> "s.icide",     severity |-> MEDIUM, action |-> "flag",     isRegex |-> FALSE, enabled |-> TRUE],
     [word |-> "suicid(",     severity |-> HIGH,   action |-> "escalate", isRegex |-> TRUE,  enabled |-> TRUE],
     [word |-> "depress",     severity |-> MEDIUM, action |-> "flag",     isRegex |-> TRUE,  enabled |-> TRUE]}

\* the lists of distinct keywords of the pool, up to MaxRules long
RuleSets ==
    UNION {{r \in [1..n -> RulePool] : \A i, j \in 1..n : i # j => r[i] # r[j]} : n \in 0..MaxRules}

\* the texts classified
ClassifyTexts ==
    {"", "Hello, how are you?", "So STRESSED!!!", "I am thinking about suicide",
     "I am depressed and stressed", "stressed depressed suicide",
     "I want to kill myself", "kill and myself", "suicide stressed suicide"}

\* characters appended to a text: two the normalization turns into spaces, and
\* the connector the class \w takes for a word character
Marks == {"!", "?", "_"}

\* scanText(text): the fast path, or the scan with the keywords loaded
classifyChars(keywords, chars) ==
    IF trim(chars) = <<>> THEN EmptyScan ELSE scanChars(keywords, chars)

\* text.toUpperCase()
UpperCase(chars) == [i \in DOMAIN chars |-> toUpperCase(chars[i])]

ClassifyInit ==
    /\ Booted
    /\ Unissued
    /\ ruleSet \in RuleSets
    /\ sample \in ClassifyTexts

\* keywordScanner.scanText(text)
classify ==
    /\ outcome.plain = Unscanned
    /\ outcome' = [outcome EXCEPT !.plain = classifyChars(ruleSet, Spelling[sample])]
    /\ UNCHANGED <<now, faults, requestVars, calls, storeVars, scannerVars, moderationVars, scans,
                   ruleSet, sample, authVars>>

\* keywordScanner.scanText(text.toUpperCase())
classifyUpper ==
    /\ outcome.plain # Unscanned
    /\ outcome.upper = Unscanned
    /\ outcome' = [outcome EXCEPT !.upper = classifyChars(ruleSet, UpperCase(Spelling[sample]))]
    /\ UNCHANGED <<now, faults, requestVars, calls, storeVars, scannerVars, moderationVars, scans,
                   ruleSet, sample, authVars>>

\* keywordScanner.scanText(text + mark)
classifyMarked ==
    /\ outcome.upper # Unscanned
    /\ outcome.marked = Unscanned
    /\ \E mark \in Marks :
        outcome' = [outcome EXCEPT !.marked = classifyChars(ruleSet, Append(Spelling[sample], mark)),
                                   !.mark = mark]
    /\ UNCHANGED <<now, faults, requestVars, calls, storeVars, scannerVars, moderationVars, scans,
                   ruleSet, sample, authVars>>

ClassifyNext == classify \/ classifyUpper \/ classifyMarked

ClassifySpec == ClassifyInit /\ [][ClassifyNext]_vars

(* ---------------------- claims on the classification -------------------- *)

\* the ordinal mapping of the severities
Ordinal(severity) ==
    CASE severity = NONE -> 0 [] severity = LOW -> 1 [] severity = MEDIUM -> 2 [] severity = HIGH -> 3

\* the positions in the rule set of the rules among these matches
RulesAmong(matches) ==
    {i \in DOMAIN ruleSet : \E j \in DOMAIN matches : matches[j].word = ruleSet[i].word}

SeveritiesAmong(matches) == {matches[j].severity : j \in DOMAIN matches}

\* the largest ordinal among the matches, 0 without a match
TopOrdinal(matches) ==
    IF matches = <<>> THEN 0
    ELSE LET ordinals == {Ordinal(x) : x \in SeveritiesAmong(matches)}
         IN  CHOOSE x \in ordinals : \A y \in ordinals : y <= x

\* C21: the score of a classification is the largest ordinal among its matches
\* (0 without a match), its severity is that of the first rule of the rule set
\* that matched with that ordinal (NONE without a match); matches of LOW and
\* MEDIUM give MEDIUM/2, of LOW, MEDIUM and HIGH give HIGH/3.
C21_ScoreIsMaximum ==
    outcome.plain # Unscanned =>
        LET result  == outcome.plain
            matched == RulesAmong(result.matches)
            top     == TopOrdinal(result.matches)
            attain  == {i \in matched : Ordinal(ruleSet[i].severity) = top}
        IN  /\ result.severityScore = top
            /\ IF matched = {}
               THEN result.severity = NONE /\ result.matches = <<>>
               ELSE result.severity = ruleSet[Min(attain)].severity
            /\ SeveritiesAmong(result.matches) = {LOW, MEDIUM} =>
                  (result.severity = MEDIUM /\ result.severityScore = 2)
            /\ SeveritiesAmong(result.matches) = {LOW, MEDIUM, HIGH} =>
                  (result.severity = HIGH /\ result.severityScore = 3)

\* a text matched LOW, MEDIUM and HIGH rules, the HIGH rule first in the rule
\* set, and was classified HIGH/3
C21_Witness ==
    /\ outcome.plain # Unscanned
    /\ SeveritiesAmong(outcome.plain.matches) = {LOW, MEDIUM, HIGH}
    /\ Len(ruleSet) > 1
    /\ ruleSet[1].severity = HIGH
    /\ outcome.plain.severity = HIGH
    /\ outcome.plain.severityScore = 3

\* the words matched, in the order of the result
WordsOf(result) == [j \in DOMAIN result.matches |-> result.matches[j].word]

\* C22: a text and its upper case are classified with the same severity and
\* the same matched words, and a punctuation character appended to the text
\* removes none of its matches.
C22_CaseAndPunctuationInsensitive ==
    /\ outcome.upper # Unscanned =>
          /\ outcome.upper.severity = outcome.plain.severity
          /\ WordsOf(outcome.upper) = WordsOf(outcome.plain)
    /\ outcome.marked # Unscanned =>
          Range(WordsOf(outcome.plain)) \subseteq Range(WordsOf(outcome.marked))

\* the term stands in the text at index i, character for character, as a whole
\* word or a run of whole words
StandsAt(term, normalized, i) ==
    /\ i + Len(term) - 1 <= Len(normalized)
    /\ SubSeq(normalized, i, i + Len(term) - 1) = term
    /\ i = 1 \/ normalized[i - 1] = " "
    /\ i + Len(term) > Len(normalized) \/ normalized[i + Len(term)] = " "

\* the non-pattern rules of the rule set among the matches of a result
PlainRulesMatched(result) ==
    {i \in RulesAmong(result.matches) : ~ruleSet[i].isRegex}

\* C23: a non-pattern rule is among the matches only when its term stands in
\* the normalized text as a whole word or a contiguous run of whole words; a
\* term that is part of a longer token does not match, nor a phrase whose
\* words another word separates.
C23_WholeWordsOnly ==
    outcome.plain # Unscanned =>
        \A i \in PlainRulesMatched(outcome.plain) :
            LET normalized == normalizeText(Spelling[sample])
            IN  \E at \in 1..Len(normalized) :
                    StandsAt(Spelling[ruleSet[i].word], normalized, at)

\* the rule set without the rules at these positions
Without(rules, dropped) ==
    LET out[i \in 0..Len(rules)] ==
            IF i = 0 THEN <<>>
            ELSE IF i \in dropped THEN out[i - 1]
            ELSE Append(out[i - 1], rules[i])
    IN  out[Len(rules)]

\* the rules whose pattern the regex engine rejects
Malformed(rules) == {i \in DOMAIN rules : RegExpThrows(rules[i])}

\* C24: a rule whose evaluation throws does not block the classification: the
\* result is the one the same text gets from the rule set without that rule.
C24_MalformedRuleSkipped ==
    outcome.plain # Unscanned =>
        outcome.plain = classifyChars(Without(ruleSet, Malformed(ruleSet)), Spelling[sample])

\* a malformed rule came first and the rule after it still matched
C24_Witness ==
    /\ outcome.plain # Unscanned
    /\ Len(ruleSet) > 1
    /\ 1 \in Malformed(ruleSet)
    /\ \E j \in DOMAIN outcome.plain.matches : outcome.plain.matches[j].word = ruleSet[2].word
    /\ outcome.plain.severity # NONE

(* ------------------------------------------------------------------------ *)
(* The idempotency service: failed lookups and duplicate records            *)
(* ------------------------------------------------------------------------ *)

\* the lookup of this delivery raised an error
LookupFailed(p) ==
    \E c \in CallsOf(p) : c.op = "ProcessedMessage.findOne" /\ c.error = "failed"

\* C25: isProcessed fails open: a delivery whose lookup raised an error is
\* not stopped by it, it goes on to markProcessed and the processing behind
\* it.
C25_LookupFailsOpen ==
    \A p \in Requests :
        LookupFailed(p) => pc[p] = "markProcessed" \/ PastAdmission(p)

\* a delivery of an id that an earlier delivery had recorded, whose lookup
\* failed, was processed to the end although the record exists
C25_Witness ==
    \E p \in Requests :
        /\ LookupFailed(p)
        /\ Done(p)
        /\ RecordExists(messageId(p))
        /\ \E q \in after[p] : Delivers(q, messageId(p)) /\ Succeeded(q, "ProcessedMessage.create", "")
        /\ QueueItemsOf(p) # {}

\* the delivery takes its markProcessed step while a record of its id exists
MarksExisting(p) ==
    /\ pc[p] = "markProcessed"
    /\ pc'[p] # "markProcessed"
    /\ RecordExists(messageId(p))

\* C26: there is at most one ProcessedMessage document per message id, and
\* markProcessed on an id that has one raises nothing and leaves the
\* documents, processedAt included, as they were.
C26_OneRecordPerId ==
    [][/\ \A r1, r2 \in processedMessages' : r1.messageId = r2.messageId => r1 = r2
       /\ \A p \in Requests :
            MarksExisting(p) =>
                /\ processedMessages' = processedMessages
                /\ pc'[p] = "scanText"
                /\ response'[p] = response[p]]_vars

\* a delivery found the id already recorded when it created the record, went
\* on, and the record still carries the earlier time
C26_Witness ==
    \E p \in Requests :
        /\ \E c \in CallsOf(p) : c.op = "ProcessedMessage.create" /\ c.error = "E11000"
        /\ Done(p)
        /\ response[p] = [status |-> 200, success |-> TRUE]
        /\ \E r \in processedMessages : r.messageId = messageId(p) /\ r.processedAt < now

(* ------------------------------------------------------------------------ *)
(* Resolving a report: provider failures, the audit record, the queue       *)
(* ------------------------------------------------------------------------ *)

\* this call of k failed
Failed(k, op) == \E c \in CallsOf(k) : c.op = op /\ c.error = "failed"

\* k has left the switch
PastSwitch(k) == step[k] \in {"saveReport", "auditResolution", "done"}

\* the moderation_resolved audit records k wrote
OwnResolvedAudits(k) == {a \in auditLog : a.action = "moderation_resolved" /\ a._id = k}

\* the report k asks about, as stored
ReportOf(k) == FindById(reports, request[k].id)

\* k's report.save() and AuditLog.create() went through
Closed(k) ==
    /\ Succeeded(k, "Report.save", request[k].action)
    /\ Succeeded(k, "AuditLog.create", "moderation_resolved")

\* C27: a failed provider call does not block the resolution.  After a failed
\* deleteMessage or banUser the handler is past the switch with the failure
\* in its details, its report.save() leaves the report resolved, and once
\* its two writes went through it is answered 200 with the failure in its
\* audit record.  The ban expiry is stored on the user before banUser is
\* called and is still stored after banUser failed.
C27_ProviderFailureDoesNotBlock ==
    \A k \in Moderations :
        /\ Failed(k, "streamClient.deleteMessage") =>
              /\ PastSwitch(k)
              /\ loaded[k].details.messageDeleted = "false"
        /\ Failed(k, "streamClient.banUser") =>
              /\ PastSwitch(k)
              /\ loaded[k].details.streamBanned = "false"
              /\ loaded[k].details.bannedUntil = loaded[k].bannedUntil
        /\ (step[k] = "banUser" \/ "streamClient.banUser" \in OpsOf(k)) =>
              /\ Succeeded(k, "User.save", "bannedUntil")
              /\ loaded[k].bannedUntil # NoDate
              /\ users[loaded[k].doc.targetId].bannedUntil # NoDate
        /\ (Failed(k, "streamClient.deleteMessage") \/ Failed(k, "streamClient.banUser")) =>
              /\ Succeeded(k, "Report.save", request[k].action) =>
                    ReportOf(k).status = "resolved"
              /\ (step[k] = "done" /\ Closed(k)) =>
                    /\ Replied(k, 200, "OK")
                    /\ \E a \in OwnResolvedAudits(k) : a.meta.details = loaded[k].details

\* a ban whose provider call failed was answered 200: the user carries the
\* expiry and the report is resolved
C27_Witness ==
    \E k \in Moderations :
        /\ Failed(k, "streamClient.banUser")
        /\ Replied(k, 200, "OK")
        /\ users[loaded[k].doc.targetId].bannedUntil = loaded[k].bannedUntil
        /\ ReportOf(k).status = "resolved"
        /\ \E a \in OwnResolvedAudits(k) : a.meta.details.streamBanned = "false"

\* C28: a resolve call answered with success has written one
\* moderation_resolved audit record of its own, with its action and its
\* details, and its report is resolved, with a resolution time and the
\* moderator of a call that saved it; with action dismiss it made no call
\* besides the lookup of the report, report.save() and AuditLog.create().
C28_OneAuditRecordPerResolve ==
    \A k \in Moderations :
        (request[k].op = "resolveModerationAction" /\ Replied(k, 200, "OK")) =>
            /\ Cardinality(OwnResolvedAudits(k)) = 1
            /\ \A a \in OwnResolvedAudits(k) :
                  /\ a.meta.reportId = request[k].id
                  /\ a.meta.action = request[k].action
                  /\ a.meta.details = loaded[k].details
                  /\ a.actor = moderatorId(k)
            /\ ReportOf(k).status = "resolved"
            /\ ReportOf(k).resolvedAt # NoDate
            /\ ReportOf(k).moderatorId \in {moderatorId(j) : j \in ResolversOf(request[k].id)}
            /\ request[k].action = "dismiss" =>
                  /\ OpsOf(k) = {"Report.findById", "Report.save", "AuditLog.create"}
                  /\ loaded[k].details = NoDetails

\* a dismiss of the report on a message was answered with success
C28_Witness ==
    \E k \in Moderations :
        /\ request[k].op = "resolveModerationAction"
        /\ request[k].action = "dismiss"
        /\ Replied(k, 200, "OK")
        /\ ReportOf(k).targetType = "message"
        /\ OwnResolvedAudits(k) # {}

\* the queue items that reference this report: through its id, or through the
\* message it is about
QueueItemsReferencing(report) ==
    {q \in moderationQueue :
        \/ "reportId" \in DOMAIN q.payload /\ q.payload.reportId = report._id
        \/ report.targetType = "message" /\ q.payload.messageId = report.targetId}

\* C29: once a resolve call is answered with success, no unprocessed queue
\* item references its report: the call has set the processed flag of the
\* items that reference it.
C29_ResolveProcessesQueueItems ==
    \A k \in Moderations :
        (request[k].op = "resolveModerationAction" /\ Replied(k, 200, "OK")) =>
            \A q \in QueueItemsReferencing(ReportOf(k)) : q.processed

(* ------------------------------------------------------------------------ *)
(* The lifecycle of a report                                                *)
(* ------------------------------------------------------------------------ *)

\* enum ReportStatus
ReportStatus == {"open", "under_review", "resolved"}

\* the report of this id changes its status in the step
StatusChanges(id, from, to) ==
    \E r \in reports, s \in reports' :
        r._id = id /\ s._id = id /\ r.status = from /\ s.status = to /\ from # to

\* a moderator's report.save() goes through in the step
ModeratorSaves(id) ==
    \E k \in Moderations :
        /\ step[k] = "saveReport" /\ step'[k] = "auditResolution"
        /\ request[k].id = id

\* C30 as stated: a report is OPEN or RESOLVED, and its status changes only
\* from OPEN to RESOLVED, when a moderator applies an action.
C30_OpenThenResolved ==
    [][/\ \A r \in reports' : r.status \in {"open", "resolved"}
       /\ \A id \in IdsOf(reports) : \A from, to \in ReportStatus :
             StatusChanges(id, from, to) =>
                 from = "open" /\ to = "resolved" /\ ModeratorSaves(id)]_vars

\* C30, amended: a report is OPEN, UNDER_REVIEW or RESOLVED; its status
\* changes only from OPEN or UNDER_REVIEW to RESOLVED, when a moderator
\* applies an action; a RESOLVED report stays RESOLVED.
C30_StatusLifecycle ==
    [][/\ \A r \in reports' : r.status \in ReportStatus
       /\ \A id \in IdsOf(reports) : \A from, to \in ReportStatus :
             StatusChanges(id, from, to) =>
                 from \in {"open", "under_review"} /\ to = "resolved" /\ ModeratorSaves(id)
       /\ \A r \in reports :
             r.status = "resolved" =>
                 \E s \in reports' : s._id = r._id /\ s.status = "resolved"]_vars

\* the automatic report, created under review, and a filed report, created
\* open, were both resolved by a moderator
C30_Witness ==
    /\ FindById(reports, FirstDelivery).status = "resolved"
    /\ FindById(reports, UserReportId).status = "resolved"
    /\ \A id \in {FirstDelivery, UserReportId} :
          \E k \in Moderations : request[k].id = id /\ Replied(k, 200, "OK")

(* ------------------------------------------------------------------------ *)
(* The order of the webhook pipeline and its failures                       *)
(* ------------------------------------------------------------------------ *)

AdmissionOps == {"ProcessedMessage.findOne", "ProcessedMessage.create"}

\* p enters the classifier or makes a call of classification, dispatch or
\* metrics in the step
Processes(p) ==
    \/ pc[p] = "scanText" /\ pc'[p] # "scanText"
    \/ \E c \in calls' \ calls : c.origin = p /\ c.op \notin AdmissionOps

\* markProcessed of p has returned, and unless its insert failed the record
\* of its id is stored (or was stored and has expired)
Marked(p) ==
    /\ PastAdmission(p)
    /\ pc[p] # "markProcessed"
    /\ ~Failed(p, "ProcessedMessage.create") =>
          RecordExists(messageId(p)) \/ messageId(p) \in swept

\* C32: markProcessed has been called and has returned before the classifier
\* is invoked and before any call of dispatch or metrics is made.
C32_MarkedBeforeProcessing ==
    [][\A p \in Requests : Processes(p) => Marked(p)]_vars

\* a HIGH delivery went through to the end with its record stored
C32_Witness ==
    \E p \in Requests :
        /\ Done(p)
        /\ Verdict(p) = HIGH
        /\ Succeeded(p, "ProcessedMessage.create", "")
        /\ RecordExists(messageId(p))
        /\ QueueItemsOf(p) # {} /\ AuditsOf(p) # {}

\* the writes the spec calls durability-critical besides the admission
CriticalWrites == {"ModerationQueue.create", "Report.create", "AuditLog.create"}

\* C33: a failure of the idempotency insert other than a uniqueness conflict,
\* or of a queue-item, report or audit write, ends the pipeline: no later
\* step runs and the event is answered as failed.
C33_CriticalFailurePropagates ==
    \A p \in Requests :
        /\ Failed(p, "ProcessedMessage.create") =>
              /\ OpsOf(p) \subseteq AdmissionOps
              /\ pc[p] = "done"
              /\ response[p].success = FALSE
        /\ (\E op \in CriticalWrites : Failed(p, op)) =>
              /\ pc[p] = "done"
              /\ response[p].success = FALSE
              /\ ~Made(p, "ChatRoom.updateOne", "lastMessageAt")
              /\ ~Made(p, "MetricsMessagesDaily.updateOne", "count")

\* the awaits of provider and notification calls in the severity handlers
BestEffortAwaits == {"highDelete", "highNotify", "highCrisis", "mediumFlag"}

\* C34: the handler never waits for a provider delete or flag call or for a
\* notification call: no request is suspended at one of them before it is
\* answered.
C34_AckDoesNotWait ==
    \A p \in Requests : pc[p] \notin BestEffortAwaits

(* ------------------------------------------------------------------------ *)
(* The matches of a classification                                          *)
(* ------------------------------------------------------------------------ *)

\* where the rule at position i of the rule set occurs in the normalized sample
OccurrencesOf(i) == KeywordHits(ruleSet[i], normalizeText(Spelling[sample]))

\* C36: the matches of a classification are in ascending order of position,
\* no rule has more than one match, the match of a rule is at its first
\* occurrence in the normalized text, and a rule that occurs nowhere has none.
C36_MatchesOrderedOnePerRule ==
    outcome.plain # Unscanned =>
        LET matches == outcome.plain.matches IN
        /\ \A i, j \in DOMAIN matches : i < j => matches[i].position <= matches[j].position
        /\ \A i, j \in DOMAIN matches : i # j => matches[i].word # matches[j].word
        /\ \A j \in DOMAIN matches :
              \E i \in DOMAIN ruleSet :
                  /\ ruleSet[i].word = matches[j].word
                  /\ ruleSet[i].enabled
                  /\ matches[j].position + 1 \in OccurrencesOf(i)
                  /\ \A at \in OccurrencesOf(i) : matches[j].position + 1 <= at
        /\ \A i \in DOMAIN ruleSet :
              OccurrencesOf(i) = {} => i \notin RulesAmong(matches)

\* a rule that occurs twice has one match; it stands before the match of a
\* rule that precedes it in the rule set; a third rule has no match
C36_Witness ==
    /\ outcome.plain # Unscanned
    /\ Len(outcome.plain.matches) = 2
    /\ Len(ruleSet) = 3
    /\ \E i, j \in DOMAIN ruleSet :
          /\ i < j
          /\ Cardinality(OccurrencesOf(j)) > 1
          /\ outcome.plain.matches[1].word = ruleSet[j].word
          /\ outcome.plain.matches[2].word = ruleSet[i].word
          /\ outcome.plain.matches[1].position < outcome.plain.matches[2].position

(* ------------------------------------------------------------------------ *)
(* Who is banned                                                            *)
(* ------------------------------------------------------------------------ *)

\* k resolves a report on a message with action ban-user
BansForMessage(k) ==
    /\ step[k] # "idle"
    /\ request[k].op = "resolveModerationAction"
    /\ request[k].action = "banUser"
    /\ ReportOf(k) # NoDocument
    /\ ReportOf(k).targetType = "message"

\* the calls of k that name a user
UserCallsOf(k) ==
    {c \in CallsOf(k) : c.op \in {"User.findById", "User.save", "streamClient.banUser"}}

DispatchesIn(cid) ==
    {a \in auditLog : /\ a.action \in {"message_moderated_high", "message_flagged_medium"}
                      /\ a.meta.channelId = cid}

\* the suspend-channel resolutions applied to this room: answered with
\* success, with channelSuspended in their details
SuspensionsOf(cid) ==
    {k \in Moderations :
        /\ Replied(k, 200, "OK")
        /\ request[k].op = "resolveModerationAction"
        /\ loaded[k].doc.targetId = cid
        /\ loaded[k].details.channelSuspended = "true"}

\* no webhook delivery and no moderator request is under way
Quiet ==
    /\ \A p \in Requests : pc[p] \in {"idle", "done"}
    /\ \A k \in Moderations : step[k] \in {"idle", "done"}

\* C39: once the deliveries and resolutions under way have ended, the flagged
\* counter of a room is 1 for every HIGH or MEDIUM dispatch in it plus 100 for
\* every suspend-channel resolution applied to it (stated for runs in which
\* no call has failed, so that only the interleaving is in play).
C39_NoLostIncrement ==
    (Quiet /\ faults = 0) =>
        \A cid \in RoomIds :
            chatRooms[cid].flaggedCount =
                Cardinality(DispatchesIn(cid)) + 100 * Cardinality(SuspensionsOf(cid))

(* ------------------------------------------------------------------------ *)
(* Concurrent loads of the keyword cache                                    *)
(* ------------------------------------------------------------------------ *)

\* the cache is left alone, emptied, or given the whole result of a read of
\* the storage
WholeReplacement ==
    cache' \in {cache, <<>>, FindEnabled(keywordStore)}

\* the rule sets the cache held while call c ran: when it began and when it
\* returned
HeldDuring(c) == {scans[c].cacheWas, scans[c].cacheLeft}

\* a scan that has returned classified its text against one of them, whole
ScannedAgainstOneRuleSet(c) ==
    (scans[c].pc = "done" /\ scans[c].op = "scanText" /\ scans[c].text \notin BlankTexts) =>
        /\ scans[c].keywords \in HeldDuring(c)
        /\ scans[c].result = ScanOf(scans[c].keywords, scans[c].text)

\* C35: the cache changes by replacement with a whole rule set only, and a
\* scan that overlaps a refresh classifies its text against the rule set the
\* cache held before the replacement or the one it held after it, never a
\* mixture of the two.
C35_AtomicSwap ==
    [][/\ WholeReplacement
       /\ \A c \in Scans : ScannedAgainstOneRuleSet(c)']_vars

\* two scans overlapped while the stored keywords changed: the one that read
\* first got the keywords, the other the empty set, and both differ in result
C35_Witness ==
    \E c, d \in Scans :
        /\ c # d
        /\ scans[c].pc = "done" /\ scans[d].pc = "done"
        /\ scans[c].op = "scanText" /\ scans[d].op = "scanText"
        /\ c \notin scans[d].earlier /\ d \notin scans[c].earlier
        /\ scans[c].loadedFrom = "storage" /\ scans[d].loadedFrom = "storage"
        /\ scans[c].keywords # scans[d].keywords
        /\ scans[c].result.severity = HIGH
        /\ scans[d].result.severity = NONE

\* the load of call c writes the cache in the step
Stores(c) ==
    /\ scans[c].pc = "loadKeywords"
    /\ scans'[c].pc = "done"
    /\ scans'[c].loadedFrom = "storage"

\* call d, which began after c, has stored what the cache now holds
Superseded(c) ==
    \E d \in Scans :
        /\ d > c
        /\ scans[d].pc = "done"
        /\ scans[d].loadedFrom = "storage"
        /\ scans[d].updateLeft = lastCacheUpdate

\* C38: the timestamp of the cache never goes back, and a load whose read of
\* the storage was issued before the read that produced the cache does not
\* overwrite it.
C38_NoStaleOverwrite ==
    [][/\ (lastCacheUpdate # NoDate /\ lastCacheUpdate' # NoDate) =>
              lastCacheUpdate' >= lastCacheUpdate
       /\ \A c \in Scans :
              (Stores(c) /\ Superseded(c)) => UNCHANGED <<cache, lastCacheUpdate>>]_vars


(* ------------------------- the tokens of AuthService -------------------- *)

Issuer == "mindsupport-api"

Audience == "mindsupport-client"

\* jwt.sign(payload, secret, { expiresIn, issuer, audience }) at time t: the
\* token carries the payload, the times and the key that signed it
sign(payload, type, secret, expiresIn, t) ==
    [userId |-> payload.userId, role |-> payload.role, email |-> payload.email,
     type |-> type, key |-> secret, iat |-> t, exp |-> t + expiresIn,
     iss |-> Issuer, aud |-> Audience]

\* AuthService.generateAccessToken(payload)
generateAccessToken(config, payload, t) ==
    sign(payload, "access", config.secret, accessExpiry, t)

\* AuthService.generateRefreshToken(payload)
generateRefreshToken(config, payload, t) ==
    sign(payload, "refresh", config.refreshSecret, refreshExpiry, t)

\* jwt.verify(token, secret, { issuer, audience }) at time t: the signature,
\* then the expiry, then the audience and the issuer
jwtVerify(token, secret, t) ==
    IF token.key # secret THEN "JsonWebTokenError"
    ELSE IF t >= token.exp THEN "TokenExpiredError"
    ELSE IF token.aud # Audience \/ token.iss # Issuer THEN "JsonWebTokenError"
    ELSE "-"

\* what a verifier throws
Thrown(by, t, message) ==
    [by |-> by, at |-> t, error |-> message, userId |-> "-", role |-> "-", type |-> "-"]

\* return decoded
Decoded(by, t, token) ==
    [by |-> by, at |-> t, error |-> "-", userId |-> token.userId, role |-> token.role,
     type |-> token.type]

\* faulty variant: the type of the token is not looked at
verifyRefreshTokenOfAnyType(config, token, t) ==
    LET failure == jwtVerify(token, config.refreshSecret, t)
    IN  IF failure = "TokenExpiredError" THEN Thrown("refresh", t, "Refresh token expired")
        ELSE IF failure = "JsonWebTokenError" THEN Thrown("refresh", t, "Invalid refresh token")
        ELSE Decoded("refresh", t, token)

\* AuthService.verifyRefreshToken(token)
verifyRefreshToken(config, token, t) ==
    LET failure == jwtVerify(token, config.refreshSecret, t)
    IN  IF failure = "TokenExpiredError" THEN Thrown("refresh", t, "Refresh token expired")
        ELSE IF failure = "JsonWebTokenError" THEN Thrown("refresh", t, "Invalid refresh token")
        ELSE IF token.type # "refresh" THEN Thrown("refresh", t, "Invalid token type")
        ELSE Decoded("refresh", t, token)

\* AuthService.verifyAccessToken(token)
verifyAccessToken(config, token, t) ==
    LET failure == jwtVerify(token, config.secret, t)
    IN  IF failure = "TokenExpiredError" THEN Thrown("access", t, "Token expired")
        ELSE IF failure = "JsonWebTokenError" THEN Thrown("access", t, "Invalid token")
        ELSE IF token.type # "access" THEN Thrown("access", t, "Invalid token type")
        ELSE Decoded("access", t, token)

\* a service is configured and handed a payload
TokenInit ==
    /\ Booted
    /\ ruleSet = <<>>
    /\ sample = ""
    /\ jwtConfig \in JwtConfigs
    /\ claims \in Payloads

\* what no token operation touches
tokenFrame == <<now, faults, requestVars, calls, storeVars, scannerVars, moderationVars, scans,
                classifyVars, sessions, jwtConfig, claims>>

\* authService.generateAccessToken(payload)
GenerateAccess ==
    /\ issued = NoToken
    /\ issued' = generateAccessToken(jwtConfig, claims, now)
    /\ UNCHANGED <<tokenFrame, verified>>

\* authService.generateRefreshToken(payload)
GenerateRefresh ==
    /\ issued = NoToken
    /\ issued' = generateRefreshToken(jwtConfig, claims, now)
    /\ UNCHANGED <<tokenFrame, verified>>

\* authService.verifyAccessToken(token)
VerifyAccess ==
    /\ issued # NoToken
    /\ verified' = verifyAccessToken(jwtConfig, issued, now)
    /\ UNCHANGED <<tokenFrame, issued>>

\* authService.verifyRefreshToken(token)
VerifyRefresh ==
    /\ issued # NoToken
    /\ verified' = verifyRefreshToken(jwtConfig, issued, now)
    /\ UNCHANGED <<tokenFrame, issued>>

TokenNext == GenerateAccess \/ GenerateRefresh \/ VerifyAccess \/ VerifyRefresh \/ Tick

TokenSpec == TokenInit /\ [][TokenNext]_vars

\* the verifier threw
Refused == verified.error # "-"

\* C31: a verifier rejects every token the generator of the other type
\* produced, whatever the payload and the secrets; it accepts a token of its
\* own type that has not expired and returns the userId and the role of the
\* payload
C31_TokenTypesNotInterchangeable ==
    verified # NoVerdict =>
        /\ verified.by # issued.type => Refused
        /\ (verified.by = issued.type /\ verified.at < issued.exp) =>
               /\ ~Refused
               /\ verified.userId = claims.userId
               /\ verified.role = claims.role

\* an access token was refused as a refresh token although one secret signs both
C31_Witness ==
    /\ verified.by = "refresh"
    /\ issued.type = "access"
    /\ jwtConfig.secret = jwtConfig.refreshSecret
    /\ verified.error = "Invalid token type"


(* ---------------- authenticate, login and refresh of a user ------------- *)

\* faulty variant: a ban never lapses
isBannedForever(user, t) == user.bannedUntil # NoDate

\* userSchema.methods.isBanned at time t
isBanned(user, t) ==
    IF user.bannedUntil = NoDate THEN FALSE ELSE t < user.bannedUntil

\* the payload login signs for a user
Account(u) ==
    [userId |-> u, role |-> IF u \in {"mod-1", "mod-2"} THEN "moderator" ELSE "user",
     email |-> "test@example.com"]

Holders == UserIds \cup {GoneUserId}

\* the times a token in a client's hands was generated at
IssueTimes == {w * MinutesPerWeek : w \in {v \in Weeks : v * MinutesPerWeek <= now}}

\* the tokens a client may present: none, or one a login or refresh handed out
Presented ==
    {NoToken}
        \cup {generateAccessToken(jwtConfig, Account(u), t) : u \in Holders, t \in IssueTimes}
        \cup {generateRefreshToken(jwtConfig, Account(u), t) : u \in Holders, t \in IssueTimes}

Client(op, u, password) == [NoSession EXCEPT !.op = op, !.userId = u, !.password = password]

Await(s, label) == [s EXCEPT !.at = label]

Send(s, status, code) == [s EXCEPT !.at = "done", !.status = status, !.code = code]

At(a, op, label) == sessions[a].op = op /\ sessions[a].at = label

sessionFrame == <<now, requestVars, calls, storeVars, scannerVars, moderationVars, scans,
                  classifyVars, tokenVars>>

\* authenticate up to await User.findById(payload.userId)
authenticate(a) ==
    /\ sessions[a].at = "idle"
    /\ \E token \in Presented :
        LET payload == verifyAccessToken(jwtConfig, token, now)
            s == Client("authenticate", token.userId, FALSE)
        IN  sessions' = [sessions EXCEPT ![a] =
                IF token = NoToken THEN Send(s, 401, "UNAUTHORIZED")
                ELSE IF payload.error # "-" THEN Send(s, 401, "INVALID_TOKEN")
                ELSE Await(s, "findById")]
    /\ UNCHANGED <<sessionFrame, faults>>

\* authenticate from the user found to await user.save()
authenticateUser(a) ==
    /\ At(a, "authenticate", "findById")
    /\ \E ok \in Outcomes :
        /\ Count(ok)
        /\ LET s == sessions[a]
           IN  sessions' = [sessions EXCEPT ![a] =
                   IF ~ok THEN Send(s, 401, "INVALID_TOKEN")
                   ELSE IF s.userId \notin UserIds THEN Send(s, 401, "USER_NOT_FOUND")
                   ELSE IF isBanned(users[s.userId], now) THEN Send(s, 403, "USER_BANNED")
                   ELSE Await(s, "save")]
    /\ UNCHANGED sessionFrame

\* authenticate: lastSeenAt is saved and next() is called
authenticateNext(a) ==
    /\ At(a, "authenticate", "save")
    /\ \E ok \in Outcomes :
        /\ Count(ok)
        /\ sessions' = [sessions EXCEPT ![a] =
               IF ok THEN Send(sessions[a], 0, "next")
               ELSE Send(sessions[a], 401, "INVALID_TOKEN")]
    /\ UNCHANGED sessionFrame

\* POST /api/auth/login up to await User.findOne({ email })
login(a) ==
    /\ sessions[a].at = "idle"
    /\ \E u \in Holders, password \in BOOLEAN :
        sessions' = [sessions EXCEPT ![a] = Await(Client("login", u, password), "findOne")]
    /\ UNCHANGED <<sessionFrame, faults>>

\* login from the user found to await authService.comparePassword
loginUser(a) ==
    /\ At(a, "login", "findOne")
    /\ \E ok \in Outcomes :
        /\ Count(ok)
        /\ LET s == sessions[a]
           IN  sessions' = [sessions EXCEPT ![a] =
                   IF ~ok THEN Send(s, 500, "INTERNAL_ERROR")
                   ELSE IF s.userId \notin UserIds THEN Send(s, 401, "INVALID_CREDENTIALS")
                   ELSE IF isBanned(users[s.userId], now) THEN Send(s, 403, "USER_BANNED")
                   ELSE Await(s, "comparePassword")]
    /\ UNCHANGED sessionFrame

\* login from the password compared to await user.save()
loginPassword(a) ==
    /\ At(a, "login", "comparePassword")
    /\ sessions' = [sessions EXCEPT ![a] =
           IF sessions[a].password THEN Await(sessions[a], "save")
           ELSE Send(sessions[a], 401, "INVALID_CREDENTIALS")]
    /\ UNCHANGED <<sessionFrame, faults>>

\* login: lastSeenAt is saved and the tokens are sent
loginSend(a) ==
    /\ At(a, "login", "save")
    /\ \E ok \in Outcomes :
        /\ Count(ok)
        /\ sessions' = [sessions EXCEPT ![a] =
               IF ok THEN Send(sessions[a], 200, "OK")
               ELSE Send(sessions[a], 500, "INTERNAL_ERROR")]
    /\ UNCHANGED sessionFrame

\* POST /api/auth/refresh up to await User.findById(payload.userId)
refresh(a) ==
    /\ sessions[a].at = "idle"
    /\ \E token \in Presented \ {NoToken} :
        LET payload == verifyRefreshToken(jwtConfig, token, now)
            s == Client("refresh", token.userId, FALSE)
        IN  sessions' = [sessions EXCEPT ![a] =
                IF payload.error # "-" THEN Send(s, 500, "INTERNAL_ERROR")
                ELSE Await(s, "findById")]
    /\ UNCHANGED <<sessionFrame, faults>>

\* refresh from the user found to the new access token
refreshUser(a) ==
    /\ At(a, "refresh", "findById")
    /\ \E ok \in Outcomes :
        /\ Count(ok)
        /\ LET s == sessions[a]
           IN  sessions' = [sessions EXCEPT ![a] =
                   IF ~ok THEN Send(s, 500, "INTERNAL_ERROR")
                   ELSE IF s.userId \notin UserIds THEN Send(s, 404, "USER_NOT_FOUND")
                   ELSE IF isBanned(users[s.userId], now) THEN Send(s, 403, "USER_BANNED")
                   ELSE Send(s, 200, "OK")]
    /\ UNCHANGED sessionFrame

Authenticate(a) ==
    \/ authenticate(a)
    \/ authenticateUser(a)
    \/ authenticateNext(a)
    \/ login(a)
    \/ loginUser(a)
    \/ loginPassword(a)
    \/ loginSend(a)
    \/ refresh(a)
    \/ refreshUser(a)

\* a moderator resolves the report on a user by banning
Ban(k) ==
    \/ /\ resolveModerationAction(k)
       /\ request'[k].action = "banUser"
       /\ request'[k].id = UserReportId
    \/ findReport(k)
    \/ findUser(k)
    \/ saveUser(k)
    \/ banUser(k)
    \/ saveReport(k)
    \/ auditResolution(k)

AuthNext ==
    \/ \E k \in Moderations : Ban(k)
    \/ \E a \in Sessions : Authenticate(a)
    \/ Tick

AuthSpec == ModInit /\ [][AuthNext]_vars


(* --------------------------- how long a ban holds ----------------------- *)

\* a ban-user resolution has saved bannedUntil on user u and that time is ahead
Banned(u) == u \in UserIds /\ users[u].bannedUntil # NoDate /\ now < users[u].bannedUntil

\* a ban-user resolution has saved bannedUntil on user u and that time is reached
Lapsed(u) == u \in UserIds /\ users[u].bannedUntil # NoDate /\ now >= users[u].bannedUntil

\* the lookup of the user of session a resolves in this step, without a failure
Looks(a) ==
    /\ sessions[a].at \in {"findById", "findOne"}
    /\ sessions'[a].at # sessions[a].at
    /\ faults' = faults

\* session a goes on to the rest of its handler, or is answered with success
Passes(a) == sessions'[a].at \in {"comparePassword", "save"} \/ sessions'[a].code = "OK"

====
